---- MODULE Spec2Model ----
(***************************************************************************)
(* Model of the Thor compiler (FenrirLang/thor):                           *)
(*   - Thor::ImportProcessor (import resolution and merging),              *)
(*   - Thor::Lexer (tokenize, string literals),                            *)
(*   - Thor::Parser::parse (statement loop with error recovery),           *)
(*   - the compiler driver main() (stage sequencing),                      *)
(*   - Thor::CodeGenerator::generate (C text of a Program),                *)
(*   - the legacy CodeGenerator::generate (program and imported modules),  *)
(*   - the expression grammar of the legacy Parser,                        *)
(*   - the legacy ImportProcessor (loadModule, resolveModulePath).         *)
(***************************************************************************)
EXTENDS Integers, Sequences, FiniteSets, TLC

(***************************************************************************)
(* Bounds of the model.                                                    *)
(***************************************************************************)
\* Total number of top-level statements over all source files of a file system.
MaxStmts == 4

\* The same total for the file systems of the specifications with repeated
\* calls (SpecReuse) and with fairness (FairSpec).
SmallStmts == 3

\* Length of the source texts given to the lexer.
MaxSourceLen == 4

\* Length of the token sequences given to the parser.
MaxTokens == 4

\* Number of "Parse error:" lines counted; further ones are not counted.
MaxErrorLog == 3

\* Length of the source texts given to the compiler driver.
MaxDriverSourceLen == 3

(***************************************************************************)
(* State.                                                                  *)
(***************************************************************************)
VARIABLES
    files,      \* the file system: canonical path -> parsed top-level statements
    ip,         \* the ImportProcessor object and its processImports invocation
    fresh,      \* the same invocation run on a newly constructed ImportProcessor
    priorCall,  \* how the previous processImports call on ip ended ("none" at first)
    source,     \* Lexer::source, a sequence of characters
    lexer,      \* Lexer::position, line, column
    tokens,     \* the token vector built by tokenize / read by the parser
    lexPc,      \* where Lexer::tokenize is: "idle", "scanning", "returned"
    current,    \* Parser::current
    program,    \* the statements of the Program that Parser::parse is building
    errorCount, \* number of "Parse error:" lines Parser::parse has printed
    parsePc,    \* where Parser::parse is: "idle", "parsing", "returned"
    driver,     \* the compiler driver main(): stage reached, exit code, output
    cg,         \* a Thor::CodeGenerator object, its input and what generate returned
    lg,         \* a legacy CodeGenerator object, its input and what generate returned
    xp,         \* an expression given to both parsers and the trees they return
    li,         \* a legacy ImportProcessor object, its file system and its calls
    rs          \* a module name given to both resolvers and the paths they return

importVars == <<files, ip, fresh, priorCall>>
lexVars == <<source, lexer, tokens, lexPc>>
parseVars == <<current, program, errorCount, parsePc>>
genVars == <<cg, lg>>
frontVars == <<xp, li, rs>>

vars == <<files, ip, fresh, priorCall, source, lexer, tokens, lexPc,
          current, program, errorCount, parsePc, driver, cg, lg, xp, li, rs>>

(***************************************************************************)
(* File system, module names, programs.                                    *)
(***************************************************************************)
\* Canonical directories: "cwd" is what "." denotes, "lib" what "./lib" denotes.
Dirs == {"cwd", "lib"}

\* Base names of the source files that exist; module "x" exists nowhere.
FileBases == {"a", "b", "c"}

ModuleNames == FileBases \cup {"x"}

Path(dir, name) == [dir |-> dir, name |-> name]

\* moduleName + ".thor"
WithThor(moduleName) == moduleName \o ".thor"

ImportStmt(moduleName) == [kind |-> "import", moduleName |-> moduleName]

\* A non-import top-level statement; path and pos identify the AST node.
OtherStmt(path, pos) == [kind |-> "stmt", path |-> path, pos |-> pos]

\* dynamic_cast<ImportStatement*>(stmt.get())
IsImport(stmt) == stmt.kind = "import"

StmtKinds == {"stmt"} \cup {"import:" \o m : m \in ModuleNames}

KindModule == [k \in {"import:" \o m : m \in ModuleNames} |->
                  CHOOSE m \in ModuleNames : k = "import:" \o m]

\* The program a file with the given statement kinds parses to.
ProgramOf(path, kinds) ==
    [i \in 1..Len(kinds) |->
        IF kinds[i] = "stmt" THEN OtherStmt(path, i)
        ELSE ImportStmt(KindModule[kinds[i]])]

\* The directory a spelling of a directory denotes: "." is the working
\* directory, "./lib" and "./example" are its subdirectories lib and example;
\* the other spellings of the model are canonical already.
CanonicalDir(dir) ==
    CASE dir = "." -> "cwd"
      [] dir = "./lib" -> "lib"
      [] dir = "./example" -> "example"
      [] OTHER -> dir

\* The file a path denotes, however the path is spelled: the key of the file
\* in the file system.
Denoted(path) == [dir |-> CanonicalDir(path.dir), name |-> path.name]

\* canonical(candidate) with the spelling kept as it is
CanonicalAsSpelled(path) == path

\* std::filesystem::canonical(candidate)
Canonical(path) == Denoted(path)

\* path + "/" + name, the directory a candidate without extension may denote
SubDirectory(path) == Denoted(path).dir \o "/" \o path.name

\* std::filesystem::is_directory(path): a directory holds at least one file
IsDirectory(path) == \E f \in DOMAIN files : f.dir = SubDirectory(path)

\* std::filesystem::exists(candidate): true of files and of directories
Exists(path) == Denoted(path) \in DOMAIN files \/ IsDirectory(path)

NotFound == [dir |-> "none", name |-> "none"]

(***************************************************************************)
(* ImportProcessor::findModule                                             *)
(***************************************************************************)
RECURSIVE SearchCandidates(_, _)
SearchCandidates(searchPaths, moduleName) ==
    IF searchPaths = <<>> THEN <<>>
    ELSE <<Path(Head(searchPaths), moduleName),
           Path(Head(searchPaths), WithThor(moduleName))>>
         \o SearchCandidates(Tail(searchPaths), moduleName)

Candidates(searchPaths, moduleName, currentDir) ==
    <<Path(currentDir, moduleName), Path(currentDir, WithThor(moduleName))>>
    \o SearchCandidates(searchPaths, moduleName)

RECURSIVE FirstExisting(_)
FirstExisting(candidates) ==
    IF candidates = <<>> THEN NotFound
    ELSE IF Exists(Head(candidates)) THEN Canonical(Head(candidates))
    ELSE FirstExisting(Tail(candidates))

\* Returns the canonical path, or NotFound where the code throws.
findModule(searchPaths, moduleName, currentDir) ==
    FirstExisting(Candidates(searchPaths, moduleName, currentDir))

\* ImportProcessor::parseFile: the statements the file parses to.
parseFile(path) == files[Denoted(path)]

(***************************************************************************)
(* ImportProcessor object.                                                 *)
(***************************************************************************)
\* ImportProcessor::ImportProcessor()
NewImportProcessor ==
    [processedFiles |-> {},
     searchPaths    |-> <<".", "./lib">>,
     mergedProgram  |-> <<>>,
     stack          |-> <<>>,
     warnings       |-> <<>>,
     errors         |-> <<>>,
     mainFile       |-> NotFound,
     status         |-> "idle"]

Frame(statements, currentDir, currentFile) ==
    [program |-> statements, idx |-> 1,
     currentDir |-> currentDir, currentFile |-> currentFile]

\* processedFiles.clear()
ClearProcessedKept(processedFiles) == processedFiles
ClearProcessed(processedFiles) == {}

\* processedFiles.insert(modulePath)
InsertProcessedNone(processedFiles, modulePath) == processedFiles
InsertProcessed(processedFiles, modulePath) == processedFiles \cup {modulePath}

\* processedFiles.find(modulePath) == processedFiles.end()
IsUnprocessed(processedFiles, modulePath) == modulePath \notin processedFiles

KeepAllStatements(statements) == statements
RECURSIVE NonImports(_)
NonImports(statements) ==
    IF statements = <<>> THEN <<>>
    ELSE IF IsImport(Head(statements)) THEN NonImports(Tail(statements))
    ELSE <<Head(statements)>> \o NonImports(Tail(statements))

\* for (stmt : statements) if (!ImportStatement) mergedProgram->addStatement(move(stmt))
AppendAtFront(mergedProgram, statements) == NonImports(statements) \o mergedProgram
AppendNonImports(mergedProgram, statements) == mergedProgram \o NonImports(statements)

Top(s) == s.stack[Len(s.stack)]

Running(s) == s.status = "running"

AtStatement(s) == Running(s) /\ Top(s).idx <= Len(Top(s).program)

CurrentStmt(s) == Top(s).program[Top(s).idx]

AtImport(s) == AtStatement(s) /\ IsImport(CurrentStmt(s))

ResolvedPath(s) ==
    findModule(s.searchPaths, CurrentStmt(s).moduleName, Top(s).currentDir)

Advance(stack) ==
    [stack EXCEPT ![Len(stack)].idx = @ + 1]

\* findModule throws "Module not found": every enclosing catch (one per
\* processProgram level) prints the error and rethrows; processImports is left
\* by the exception, so no merged program is returned.
ModuleNotFoundWarnOnly(s) ==
    [s EXCEPT !.warnings = Append(@,
                  [moduleName |-> CurrentStmt(s).moduleName,
                   importedFrom |-> NotFound,
                   foundIn |-> Top(s).currentFile]),
              !.stack = Advance(@)]
ModuleNotFound(s) ==
    [s EXCEPT !.status = "failed",
              !.errors = [i \in 1..Len(s.stack) |->
                             [kind |-> "ModuleNotFound",
                              moduleName |-> CurrentStmt(s).moduleName]],
              !.stack = <<>>,
              !.mergedProgram = <<>>]

\* processImports up to the first call of processProgram (lines 66-117).
BeginCall(s, mainProgram, mainFile) ==
    [s EXCEPT !.processedFiles = ClearProcessed(@),
              !.mergedProgram  = <<>>,
              !.stack    = <<Frame(mainProgram, mainFile.dir, mainFile)>>,
              !.warnings = <<>>,
              !.errors   = <<>>,
              !.mainFile = mainFile,
              !.status   = "running"]

\* One iteration of the statement loop of processProgram, or the return from
\* a processProgram call, on the invocation state s.
StepCall(s) ==
    IF ~Running(s) THEN s
    ELSE IF AtStatement(s) THEN
        IF ~IsImport(CurrentStmt(s)) THEN
            \* non-import statement: added later
            [s EXCEPT !.stack = Advance(@)]
        ELSE LET modulePath == ResolvedPath(s) IN
            IF modulePath = NotFound THEN
                ModuleNotFound(s)
            ELSE IF IsUnprocessed(s.processedFiles, modulePath) THEN
                [s EXCEPT !.processedFiles = InsertProcessed(@, modulePath),
                          !.stack = Advance(@) \o
                              <<Frame(parseFile(modulePath), modulePath.dir, modulePath)>>]
            ELSE
                [s EXCEPT !.warnings = Append(@,
                              [moduleName |-> CurrentStmt(s).moduleName,
                               importedFrom |-> modulePath,
                               foundIn |-> Top(s).currentFile]),
                          !.stack = Advance(@)]
    ELSE IF Len(s.stack) > 1 THEN
        \* processProgram of an imported file returns: lines 94-98
        [s EXCEPT !.mergedProgram = AppendNonImports(@, Top(s).program),
                  !.stack = SubSeq(@, 1, Len(@) - 1)]
    ELSE
        \* processProgram of the main program returns: lines 119-126
        [s EXCEPT !.mergedProgram = AppendNonImports(@, Top(s).program),
                  !.stack = <<>>,
                  !.status = "done"]

(***************************************************************************)
(* Initial state: a file system of three source files in the working       *)
(* directory, and a newly constructed ImportProcessor.                     *)
(***************************************************************************)
SourcePath(base) == Path("cwd", WithThor(base))

InitFiles(total) ==
    \E la \in 0..total :
    \E lb \in 0..(total - la) :
    \E lc \in 0..(total - la - lb) :
    \E ka \in [1..la -> StmtKinds], kb \in [1..lb -> StmtKinds],
       kc \in [1..lc -> StmtKinds] :
        files = (SourcePath("a") :> ProgramOf(SourcePath("a"), ka))
             @@ (SourcePath("b") :> ProgramOf(SourcePath("b"), kb))
             @@ (SourcePath("c") :> ProgramOf(SourcePath("c"), kc))

\* No lexer at work.
LexIdle ==
    /\ source = <<>>
    /\ lexer = [position |-> 0, line |-> 1, column |-> 1]
    /\ tokens = <<>>
    /\ lexPc = "idle"

\* No parser at work.
ParseIdle ==
    /\ current = 0
    /\ program = <<>>
    /\ errorCount = 0
    /\ parsePc = "idle"

\* No compiler driver at work.
DriverIdle == driver = [stage |-> "none"]

FrontIdle ==
    /\ xp = [stage |-> "none"]
    /\ li = [stage |-> "none"]
    /\ rs = [stage |-> "none"]

GenIdle ==
    /\ cg = [stage |-> "none"]
    /\ lg = [stage |-> "none"]
    /\ FrontIdle

Init ==
    /\ InitFiles(MaxStmts)
    /\ ip = NewImportProcessor
    /\ fresh = NewImportProcessor
    /\ priorCall = "none"
    /\ LexIdle
    /\ ParseIdle
    /\ DriverIdle
    /\ GenIdle

InitSmall ==
    /\ InitFiles(SmallStmts)
    /\ ip = NewImportProcessor
    /\ fresh = NewImportProcessor
    /\ priorCall = "none"
    /\ LexIdle
    /\ ParseIdle
    /\ DriverIdle
    /\ GenIdle

(***************************************************************************)
(* Actions.                                                                *)
(***************************************************************************)
\* importProcessor.processImports(std::move(program), mainFile)
\* on a newly constructed ImportProcessor
ProcessImports(mainFile) ==
    /\ ip.status = "idle"
    /\ ip' = BeginCall(ip, parseFile(mainFile), mainFile)
    /\ fresh' = BeginCall(NewImportProcessor, parseFile(mainFile), mainFile)
    /\ UNCHANGED <<files, priorCall>>
    /\ UNCHANGED <<lexVars, parseVars, driver, genVars, frontVars>>

\* a further call on the same ImportProcessor, after a call that returned or threw
ProcessImportsAgain(mainFile) ==
    /\ ip.status \in {"done", "failed"}
    /\ ip' = BeginCall(ip, parseFile(mainFile), mainFile)
    /\ fresh' = BeginCall(NewImportProcessor, parseFile(mainFile), mainFile)
    /\ priorCall' = ip.status
    /\ UNCHANGED files
    /\ UNCHANGED <<lexVars, parseVars, driver, genVars, frontVars>>

Lockstep ==
    /\ ip' = StepCall(ip)
    /\ fresh' = StepCall(fresh)
    /\ UNCHANGED <<files, priorCall>>
    /\ UNCHANGED <<lexVars, parseVars, driver, genVars, frontVars>>

SkipStatement ==
    /\ AtStatement(ip) /\ ~IsImport(CurrentStmt(ip))
    /\ Lockstep

ImportNew ==
    /\ AtImport(ip)
    /\ ResolvedPath(ip) # NotFound
    /\ IsUnprocessed(ip.processedFiles, ResolvedPath(ip))
    /\ Lockstep

ImportDuplicate ==
    /\ AtImport(ip)
    /\ ResolvedPath(ip) # NotFound
    /\ ~IsUnprocessed(ip.processedFiles, ResolvedPath(ip))
    /\ Lockstep

ImportNotFound ==
    /\ AtImport(ip)
    /\ ResolvedPath(ip) = NotFound
    /\ Lockstep

ReturnFromImport ==
    /\ Running(ip) /\ ~AtStatement(ip) /\ Len(ip.stack) > 1
    /\ Lockstep

ReturnMerged ==
    /\ Running(ip) /\ ~AtStatement(ip) /\ Len(ip.stack) = 1
    /\ Lockstep

ImportStep ==
    \/ SkipStatement
    \/ ImportNew
    \/ ImportDuplicate
    \/ ImportNotFound
    \/ ReturnFromImport
    \/ ReturnMerged

Next ==
    \/ \E mainFile \in DOMAIN files : ProcessImports(mainFile)
    \/ ImportStep

Spec == Init /\ [][Next]_vars

\* processImports runs to its return or its exception once called: the
\* pipeline is single-threaded and synchronous.
FairSpec == InitSmall /\ [][Next]_vars /\ WF_vars(ImportStep)

NextReuse ==
    \/ \E mainFile \in DOMAIN files : ProcessImports(mainFile)
    \/ \E mainFile \in DOMAIN files : ProcessImportsAgain(mainFile)
    \/ ImportStep

SpecReuse == InitSmall /\ [][NextReuse]_vars

(***************************************************************************)
(* Import graph of a file system, read off the source files.               *)
(***************************************************************************)
ImportsIn(path) ==
    {i \in 1..Len(files[path]) : files[path][i].kind = "import"}

\* The files the import statements of the file at path resolve to.
DirectImports(path) ==
    {findModule(ip.searchPaths, files[path][i].moduleName, path.dir) :
        i \in ImportsIn(path)} \ {NotFound}

RECURSIVE ImportClosure(_)
ImportClosure(paths) ==
    LET more == paths \cup UNION {DirectImports(p) : p \in paths}
    IN  IF more = paths THEN paths ELSE ImportClosure(more)

\* The distinct files imported, directly or transitively, from the file at path.
TransitiveImports(path) == ImportClosure(DirectImports(path))

\* The non-import statements of the file at path, in source order.
OwnStatements(path) ==
    SelectSeq(files[path], LAMBDA st : st.kind # "import")

Orderings(S) ==
    {o \in [1..Cardinality(S) -> S] : \A i, j \in DOMAIN o : i # j => o[i] # o[j]}

RECURSIVE Blocks(_)
Blocks(order) ==
    IF order = <<>> THEN <<>>
    ELSE OwnStatements(Head(order)) \o Blocks(Tail(order))

Positions(path) ==
    {i \in DOMAIN ip.mergedProgram : ip.mergedProgram[i].path = path}

WarningsFor(path) ==
    {i \in DOMAIN ip.warnings : ip.warnings[i].importedFrom = path}

\* Files of module frames (every frame above the main program's).
InProgress(s) == {s.stack[i].currentFile : i \in 2..Len(s.stack)}

Done == ip.status = "done"

(***************************************************************************)
(* Claims about Thor::ImportProcessor::processImports.                     *)
(***************************************************************************)

\* C1: the merged program returned by processImports is exactly the non-import
\* statements of every distinct transitively imported module, one contiguous
\* block per module in source order, followed by the main program's own
\* non-import statements; no import statement is left at top level.
C1_MergedIsModulesThenMain ==
    Done =>
        /\ \E order \in Orderings(TransitiveImports(ip.mainFile)) :
              ip.mergedProgram = Blocks(order) \o OwnStatements(ip.mainFile)
        /\ \A i \in DOMAIN ip.mergedProgram : ip.mergedProgram[i].kind # "import"

C1_Witness ==
    /\ Done
    /\ Cardinality(TransitiveImports(ip.mainFile)) >= 2
    /\ \E p \in TransitiveImports(ip.mainFile) : Len(OwnStatements(p)) >= 1
    /\ Len(OwnStatements(ip.mainFile)) >= 1

ImportSites(path) ==
    LET sources == {ip.mainFile} \cup TransitiveImports(ip.mainFile)
    IN  {h \in UNION {{p} \X ImportsIn(p) : p \in sources} :
            findModule(ip.searchPaths, files[h[1]][h[2]].moduleName, h[1].dir) = path}

\* C3 (as claimed): a module imported k >= 2 times is merged exactly once and
\* gets exactly k-1 duplicate-import warnings, each naming the module, the
\* recorded path and the re-importing file.
C3_OneCopyAndKMinusOneWarnings ==
    Done =>
        \A path \in DOMAIN files :
            Cardinality(ImportSites(path)) >= 2 =>
                /\ \A pos \in 1..Len(OwnStatements(path)) :
                      Cardinality({i \in Positions(path) :
                          ip.mergedProgram[i] = OwnStatements(path)[pos]}) = 1
                /\ Cardinality(WarningsFor(path)) = Cardinality(ImportSites(path)) - 1

\* C4 (as claimed): whenever X imports Y directly or transitively, all of Y's
\* statements precede all of X's in the merged program, the main program
\* being the last X.
C4_DependencyBeforeDependent ==
    Done =>
        \A x \in {ip.mainFile} \cup TransitiveImports(ip.mainFile) :
            \A y \in TransitiveImports(x) \ {x} :
                \A i \in Positions(y), j \in Positions(x) : i < j

\* C4 (amended): the same for every X that lies on no import cycle (X does
\* not import itself, directly or transitively), the main program included.
C4_AcyclicDependencyOrder ==
    Done =>
        \A x \in {ip.mainFile} \cup TransitiveImports(ip.mainFile) :
            x \notin TransitiveImports(x) =>
                \A y \in TransitiveImports(x) :
                    \A i \in Positions(y), j \in Positions(x) : i < j

C4_Witness ==
    /\ Done
    /\ \E x \in TransitiveImports(ip.mainFile) :
          /\ x \notin TransitiveImports(x)
          /\ Positions(x) # {}
          /\ \E y \in TransitiveImports(x) : Positions(y) # {}

\* C9: an import that resolves nowhere aborts processImports at once with a
\* module-not-found error: no merged program, no warning in its place, and
\* nothing more is resolved or merged afterwards.
C9_NotFoundAborts ==
    /\ [][(AtImport(ip) /\ ResolvedPath(ip) = NotFound) =>
            /\ ip'.status = "failed"
            /\ ip'.errors # <<>>
            /\ \A i \in DOMAIN ip'.errors :
                  /\ ip'.errors[i].kind = "ModuleNotFound"
                  /\ ip'.errors[i].moduleName = CurrentStmt(ip).moduleName
            /\ ip'.mergedProgram = <<>>
            /\ ip'.warnings = ip.warnings
            /\ ip'.processedFiles = ip.processedFiles]_vars
    /\ [][ip.status = "failed" => ip' = ip]_vars

C9_Witness ==
    /\ ip.status = "failed"
    /\ Len(ip.errors) >= 2
    /\ ip.processedFiles # {}

\* C10: every processImports call, also one that follows a call that threw,
\* starts from an empty processed set, so its merged program, warnings and
\* outcome are those of the same call on a newly constructed ImportProcessor.
C10_CallsAreIndependent ==
    /\ ip.mergedProgram = fresh.mergedProgram
    /\ ip.warnings = fresh.warnings
    /\ ip.errors = fresh.errors
    /\ ip.status = fresh.status
    /\ ip.processedFiles = fresh.processedFiles

C10_Witness ==
    /\ priorCall = "failed"
    /\ Done
    /\ ip.processedFiles # {}
    /\ ip.warnings # <<>>

(***************************************************************************)
(* Thor::Lexer.                                                            *)
(***************************************************************************)
\* '\0', what currentChar and peekChar return past the end of the source
NUL == "NUL"

Quote == "\""

Backslash == "\\"

Newline == "\n"

Letters == {"a", "b", "c", "d", "e", "f", "g", "h", "i", "j", "k", "l", "m",
            "n", "o", "p", "q", "r", "s", "t", "u", "v", "w", "x", "y", "z"}

Digits == {"0", "1", "2", "3", "4", "5", "6", "7", "8", "9"}

\* std::isspace
IsSpace(c) == c \in {" ", "\t", "\r", Newline}

\* std::isdigit
IsDigit(c) == c \in Digits

\* std::isalpha
IsAlpha(c) == c \in Letters

\* std::isalnum
IsAlnum(c) == IsAlpha(c) \/ IsDigit(c)

\* The characters the source texts of the model are written in.
SourceChars == {"a", "1", Quote, " ", Newline, "/", ";", "}"}

Sources == UNION {[1..n -> SourceChars] : n \in 0..MaxSourceLen}

\* Lexer::Lexer(src)
NewLexer == [position |-> 0, line |-> 1, column |-> 1]

Token(type, value, line, column) ==
    [type |-> type, value |-> value, line |-> line, column |-> column]

\* TokenInfo::keywords
Keywords ==
    {<< <<"i","n","t">>, "INT" >>, << <<"f","l","o","a","t">>, "FLOAT" >>,
     << <<"s","t","r","i","n","g">>, "STRING_KW" >>, << <<"b","o","o","l">>, "BOOL" >>,
     << <<"v","o","i","d">>, "VOID" >>, << <<"i","f">>, "IF" >>,
     << <<"e","l","s","e">>, "ELSE" >>, << <<"w","h","i","l","e">>, "WHILE" >>,
     << <<"f","o","r">>, "FOR" >>, << <<"r","e","t","u","r","n">>, "RETURN" >>,
     << <<"t","r","u","e">>, "TRUE" >>, << <<"f","a","l","s","e">>, "FALSE" >>,
     << <<"i","m","p","o","r","t">>, "IMPORT" >>,
     << <<"e","x","t","e","r","n">>, "EXTERN" >>}

\* TokenInfo::isKeyword
isKeyword(text) == \E k \in Keywords : k[1] = text

\* TokenInfo::getKeywordType
getKeywordType(text) ==
    IF isKeyword(text) THEN (CHOOSE k \in Keywords : k[1] = text)[2]
    ELSE "IDENTIFIER"

\* Lexer::isAtEnd
LexAtEnd(lx) == lx.position >= Len(source)

\* Lexer::currentChar
currentChar(lx) ==
    IF lx.position >= Len(source) THEN NUL ELSE source[lx.position + 1]

\* Lexer::peekChar(offset = 1)
peekChar(lx) ==
    IF lx.position + 1 >= Len(source) THEN NUL ELSE source[lx.position + 2]

\* Lexer::advance
advance(lx) ==
    IF lx.position < Len(source) THEN
        IF currentChar(lx) = Newline
        THEN [position |-> lx.position + 1, line |-> lx.line + 1, column |-> 1]
        ELSE [position |-> lx.position + 1, line |-> lx.line,
              column |-> lx.column + 1]
    ELSE lx

\* Lexer::skipWhitespace
RECURSIVE skipWhitespace(_)
skipWhitespace(lx) ==
    IF IsSpace(currentChar(lx)) THEN skipWhitespace(advance(lx)) ELSE lx

\* Lexer::skipLineComment
RECURSIVE skipLineComment(_)
skipLineComment(lx) ==
    IF currentChar(lx) # Newline /\ currentChar(lx) # NUL
    THEN skipLineComment(advance(lx)) ELSE lx

RECURSIVE BlockCommentBody(_)
BlockCommentBody(lx) ==
    IF currentChar(lx) = NUL THEN lx
    ELSE IF currentChar(lx) = "*" /\ peekChar(lx) = "/" THEN advance(advance(lx))
    ELSE BlockCommentBody(advance(lx))

\* Lexer::skipBlockComment
skipBlockComment(lx) == BlockCommentBody(advance(advance(lx)))

RECURSIVE NumberBody(_, _, _)
NumberBody(lx, number, hasDecimal) ==
    IF IsDigit(currentChar(lx)) \/ (currentChar(lx) = "." /\ ~hasDecimal)
    THEN NumberBody(advance(lx), Append(number, currentChar(lx)),
                    hasDecimal \/ currentChar(lx) = ".")
    ELSE [lexer |-> lx, value |-> number]

\* Lexer::readNumber
readNumber(lx) ==
    LET r == NumberBody(lx, <<>>, FALSE)
    IN  [lexer |-> r.lexer, token |-> Token("NUMBER", r.value, lx.line, lx.column)]

\* the switch on the character after a backslash
Escaped(c) ==
    CASE c = "n" -> Newline
      [] c = "t" -> "\t"
      [] c = "r" -> "\r"
      [] OTHER -> c

RECURSIVE StringBody(_, _)
StringBody(lx, str) ==
    IF currentChar(lx) # Quote /\ currentChar(lx) # NUL THEN
        IF currentChar(lx) = Backslash
        THEN StringBody(advance(advance(lx)),
                        Append(str, Escaped(currentChar(advance(lx)))))
        ELSE StringBody(advance(lx), Append(str, currentChar(lx)))
    ELSE [lexer |-> lx, value |-> str]

\* Lexer::readString: at the end of the source without a closing quote it
\* returns the STRING token all the same.
readString(lx) ==
    LET r == StringBody(advance(lx), <<>>)
    IN  [lexer |-> IF currentChar(r.lexer) = Quote THEN advance(r.lexer)
                   ELSE r.lexer,
         token |-> Token("STRING", r.value, lx.line, lx.column)]

RECURSIVE IdentifierBody(_, _)
IdentifierBody(lx, identifier) ==
    IF IsAlnum(currentChar(lx)) \/ currentChar(lx) = "_"
    THEN IdentifierBody(advance(lx), Append(identifier, currentChar(lx)))
    ELSE [lexer |-> lx, value |-> identifier]

\* Lexer::readIdentifier
readIdentifier(lx) ==
    LET r == IdentifierBody(lx, <<>>)
    IN  [lexer |-> r.lexer,
         token |-> Token(getKeywordType(r.value), r.value, lx.line, lx.column)]

SingleCharTokens ==
    {<<"+", "PLUS">>, <<"-", "MINUS">>, <<"*", "MULTIPLY">>, <<"/", "DIVIDE">>,
     <<"%", "MODULO">>, <<"(", "LEFT_PAREN">>, <<")", "RIGHT_PAREN">>,
     <<"{", "LEFT_BRACE">>, <<"}", "RIGHT_BRACE">>, <<"[", "LEFT_BRACKET">>,
     <<"]", "RIGHT_BRACKET">>, <<";", "SEMICOLON">>, <<",", "COMMA">>,
     <<".", "DOT">>}

\* first character -> <<second character, type of the pair, type alone>>
TwoCharTokens ==
    {<<"=", "=", "EQUAL", "ASSIGN">>, <<"!", "=", "NOT_EQUAL", "NOT">>,
     <<"<", "=", "LESS_EQUAL", "LESS">>, <<">", "=", "GREATER_EQUAL", "GREATER">>,
     <<"&", "&", "AND", "INVALID">>, <<"|", "|", "OR", "INVALID">>,
     <<":", ":", "NAMESPACE_SEP", "COLON">>}

\* Lexer::readOperator
readOperator(lx) ==
    LET c == currentChar(lx)
        l1 == advance(lx)
    IN  IF \E t \in SingleCharTokens : t[1] = c THEN
            [lexer |-> l1,
             token |-> Token((CHOOSE t \in SingleCharTokens : t[1] = c)[2],
                             <<c>>, lx.line, lx.column)]
        ELSE IF \E t \in TwoCharTokens : t[1] = c THEN
            LET t == CHOOSE t \in TwoCharTokens : t[1] = c
            IN  IF currentChar(l1) = t[2]
                THEN [lexer |-> advance(l1),
                      token |-> Token(t[3], <<c, t[2]>>, lx.line, lx.column)]
                ELSE [lexer |-> l1,
                      token |-> Token(t[4], <<c>>, lx.line, lx.column)]
        ELSE [lexer |-> l1, token |-> Token("INVALID", <<c>>, lx.line, lx.column)]

\* Lexer::nextToken
RECURSIVE nextToken(_)
nextToken(lx0) ==
    LET lx == skipWhitespace(lx0)
        c == currentChar(lx)
    IN  IF LexAtEnd(lx) THEN
            [lexer |-> lx, token |-> Token("EOF_TOKEN", <<>>, lx.line, lx.column)]
        ELSE IF c = "/" /\ peekChar(lx) = "/" THEN nextToken(skipLineComment(lx))
        ELSE IF c = "/" /\ peekChar(lx) = "*" THEN nextToken(skipBlockComment(lx))
        ELSE IF IsDigit(c) THEN readNumber(lx)
        ELSE IF c = Quote THEN readString(lx)
        ELSE IF IsAlpha(c) \/ c = "_" THEN readIdentifier(lx)
        ELSE readOperator(lx)

\* One iteration of the loop of Lexer::tokenize: the tokens afterwards.
PushToken(toks, token) ==
    IF token.type # "INVALID" THEN Append(toks, token) ELSE toks

\* Lexer::tokenize as a whole, from lexer state lx with toks collected so far.
RECURSIVE tokenizeFrom(_, _)
tokenizeFrom(lx, toks) ==
    IF LexAtEnd(lx) THEN toks
    ELSE LET r == nextToken(lx)
         IN  IF r.token.type = "EOF_TOKEN" THEN PushToken(toks, r.token)
             ELSE tokenizeFrom(r.lexer, PushToken(toks, r.token))

(***************************************************************************)
(* Specification of the lexer: Lexer::tokenize on every source text.       *)
(***************************************************************************)
ImportIdle ==
    /\ files = <<>>
    /\ ip = NewImportProcessor
    /\ fresh = NewImportProcessor
    /\ priorCall = "none"

InitLexer ==
    /\ ImportIdle
    /\ source \in Sources
    /\ lexer = NewLexer
    /\ tokens = <<>>
    /\ lexPc = "idle"
    /\ ParseIdle
    /\ DriverIdle
    /\ GenIdle

\* lexer.tokenize() is called
TokenizeBegin ==
    /\ lexPc = "idle"
    /\ lexPc' = "scanning"
    /\ UNCHANGED <<source, lexer, tokens>>
    /\ UNCHANGED <<importVars, parseVars, driver, genVars, frontVars>>

\* one iteration of while (!isAtEnd()) that does not break
TokenizeNext ==
    /\ lexPc = "scanning"
    /\ ~LexAtEnd(lexer)
    /\ nextToken(lexer).token.type # "EOF_TOKEN"
    /\ lexer' = nextToken(lexer).lexer
    /\ tokens' = PushToken(tokens, nextToken(lexer).token)
    /\ UNCHANGED <<source, lexPc>>
    /\ UNCHANGED <<importVars, parseVars, driver, genVars, frontVars>>

\* the iteration in which nextToken returns EOF_TOKEN: push it, break, return
TokenizeBreak ==
    /\ lexPc = "scanning"
    /\ ~LexAtEnd(lexer)
    /\ nextToken(lexer).token.type = "EOF_TOKEN"
    /\ lexer' = nextToken(lexer).lexer
    /\ tokens' = PushToken(tokens, nextToken(lexer).token)
    /\ lexPc' = "returned"
    /\ UNCHANGED source
    /\ UNCHANGED <<importVars, parseVars, driver, genVars, frontVars>>

\* the loop condition fails: return tokens
TokenizeReturn ==
    /\ lexPc = "scanning"
    /\ LexAtEnd(lexer)
    /\ lexPc' = "returned"
    /\ UNCHANGED <<source, lexer, tokens>>
    /\ UNCHANGED <<importVars, parseVars, driver, genVars, frontVars>>

NextLexer ==
    \/ TokenizeBegin
    \/ TokenizeNext
    \/ TokenizeBreak
    \/ TokenizeReturn

SpecLexer == InitLexer /\ [][NextLexer]_vars

\* C7 (as claimed): the token sequence tokenize returns ends with the
\* end-of-input token and holds exactly one end-of-input token, whatever the
\* source ends with.
C7_EndsWithOneEof ==
    lexPc = "returned" =>
        /\ tokens # <<>>
        /\ tokens[Len(tokens)].type = "EOF_TOKEN"
        /\ Cardinality({i \in DOMAIN tokens : tokens[i].type = "EOF_TOKEN"}) = 1

(***************************************************************************)
(* Thor::Parser.  A parsing function takes pos, the value of               *)
(* Parser::current on entry, and yields [ok, pos, node]: ok is FALSE when  *)
(* it throws a ParseError, pos is Parser::current when it returns or       *)
(* throws, node is the AST node it returns or the error it throws.         *)
(***************************************************************************)
\* static Token eofToken(TokenType::EOF_TOKEN)
EofToken == Token("EOF_TOKEN", <<>>, 0, 0)

\* Parser::currentToken
currentToken(pos) == IF pos >= Len(tokens) THEN EofToken ELSE tokens[pos + 1]

\* default argument of Parser::peekToken: the token after the current one
PeekOffset == 1

\* Parser::peekToken
peekToken(pos) ==
    IF pos + PeekOffset >= Len(tokens) THEN EofToken
    ELSE tokens[pos + PeekOffset + 1]

\* Parser::advance
ParserAdvance(pos) == IF pos < Len(tokens) THEN pos + 1 ELSE pos

\* Parser::isAtEnd
isAtEnd(pos) == pos >= Len(tokens) \/ currentToken(pos).type = "EOF_TOKEN"

\* Parser::check
check(type, pos) == ~isAtEnd(pos) /\ currentToken(pos).type = type

\* Parser::match: Parser::current afterwards
match(type, pos) == IF check(type, pos) THEN ParserAdvance(pos) ELSE pos

\* a parsing function returns node
Returned(pos, node) == [ok |-> TRUE, pos |-> pos, node |-> node]

\* throw ParseError(message + " at line " + currentToken().line)
ParseError(message, pos) ==
    [ok |-> FALSE, pos |-> pos,
     node |-> [kind |-> "ParseError", message |-> message,
               line |-> currentToken(pos).line]]

\* Parser::consume
consume(type, message, pos) ==
    IF check(type, pos) THEN Returned(ParserAdvance(pos), currentToken(pos))
    ELSE ParseError(message, pos)

\* Parser::parseType
parseType(pos) ==
    IF check("INT", pos) THEN Returned(ParserAdvance(pos), "INT")
    ELSE IF check("FLOAT", pos) THEN Returned(ParserAdvance(pos), "FLOAT")
    ELSE IF check("STRING_KW", pos) THEN Returned(ParserAdvance(pos), "STRING")
    ELSE IF check("BOOL", pos) THEN Returned(ParserAdvance(pos), "BOOL")
    ELSE IF check("VOID", pos) THEN
        IF check("MULTIPLY", ParserAdvance(pos))
        THEN Returned(ParserAdvance(ParserAdvance(pos)), "VOID_PTR")
        ELSE Returned(ParserAdvance(pos), "VOID")
    ELSE ParseError("Expected type", pos)

\* Sequencing inside a parsing function: when the call that yielded result
\* threw, the ParseError propagates; otherwise the function continues.
Then(result, Continue(_)) ==
    CHOOSE next \in {IF r.ok THEN Continue(r) ELSE r : r \in {result}} : TRUE

\* The operator tokens of the binary levels, loosest first: logicalOr,
\* logicalAnd, equality, comparison, term, factor.
BinaryOperators ==
    << {"OR"}, {"AND"}, {"EQUAL", "NOT_EQUAL"},
       {"GREATER", "GREATER_EQUAL", "LESS", "LESS_EQUAL"},
       {"MINUS", "PLUS"}, {"DIVIDE", "MULTIPLY", "MODULO"} >>

BinaryOperation(left, op, right) ==
    [kind |-> "BinaryOperation", left |-> left, op |-> op, right |-> right]

Nullptr == [kind |-> "nullptr"]

RECURSIVE expression(_), BinaryLevel(_, _), BinaryLoop(_, _, _), unary(_)
RECURSIVE call(_), CallLoop(_, _), Arguments(_, _), primary(_)

\* Parser::logicalOr .. Parser::factor: the operand of the level, then the
\* while loop over the level's operators
BinaryLevel(level, pos) ==
    IF level > Len(BinaryOperators) THEN unary(pos)
    ELSE Then(BinaryLevel(level + 1, pos), LAMBDA left :
         BinaryLoop(level, left.node, left.pos))

BinaryLoop(level, expr, pos) ==
    IF \E t \in BinaryOperators[level] : check(t, pos) THEN
        Then(BinaryLevel(level + 1, ParserAdvance(pos)), LAMBDA right :
        BinaryLoop(level,
                   BinaryOperation(expr, tokens[pos + 1].value, right.node),
                   right.pos))
    ELSE Returned(pos, expr)

\* Parser::expression
expression(pos) == BinaryLevel(1, pos)

\* Parser::unary
unary(pos) ==
    IF check("NOT", pos) \/ check("MINUS", pos) THEN
        Then(unary(ParserAdvance(pos)), LAMBDA right :
        Returned(right.pos, [kind |-> "UnaryOperation",
                             op |-> tokens[pos + 1].value,
                             operand |-> right.node]))
    ELSE call(pos)

\* the do-while loop over the arguments of a call
Arguments(pos, args) ==
    Then(expression(pos), LAMBDA arg :
    IF check("COMMA", arg.pos)
    THEN Arguments(ParserAdvance(arg.pos), Append(args, arg.node))
    ELSE Returned(arg.pos, Append(args, arg.node)))

\* the while (true) loop of Parser::call
CallLoop(expr, pos) ==
    IF check("LEFT_PAREN", pos) THEN
        IF expr.kind = "Identifier" THEN
            Then(IF check("RIGHT_PAREN", ParserAdvance(pos))
                 THEN Returned(ParserAdvance(pos), <<>>)
                 ELSE Arguments(ParserAdvance(pos), <<>>), LAMBDA args :
            Then(consume("RIGHT_PAREN", "Expected ')' after arguments", args.pos),
                 LAMBDA close :
            CallLoop([kind |-> "FunctionCall", name |-> expr.name,
                      arguments |-> args.node], close.pos)))
        ELSE ParseError("Invalid function call", ParserAdvance(pos))
    ELSE Returned(pos, expr)

\* Parser::call
call(pos) == Then(primary(pos), LAMBDA expr : CallLoop(expr.node, expr.pos))

\* Parser::primary
primary(pos) ==
    IF check("TRUE", pos) THEN
        Returned(ParserAdvance(pos), [kind |-> "BoolLiteral", value |-> TRUE])
    ELSE IF check("FALSE", pos) THEN
        Returned(ParserAdvance(pos), [kind |-> "BoolLiteral", value |-> FALSE])
    ELSE IF check("NUMBER", pos) THEN
        Returned(ParserAdvance(pos),
                 [kind |-> "NumberLiteral", value |-> tokens[pos + 1].value])
    ELSE IF check("STRING", pos) THEN
        Returned(ParserAdvance(pos),
                 [kind |-> "StringLiteral", value |-> tokens[pos + 1].value])
    ELSE IF check("IDENTIFIER", pos) THEN
        IF check("NAMESPACE_SEP", ParserAdvance(pos)) THEN
            Then(consume("IDENTIFIER", "Expected identifier after '::'",
                         ParserAdvance(ParserAdvance(pos))), LAMBDA member :
            Returned(member.pos,
                     [kind |-> "Identifier",
                      name |-> tokens[pos + 1].value \o <<":", ":">>
                                   \o member.node.value]))
        ELSE Returned(ParserAdvance(pos),
                      [kind |-> "Identifier", name |-> tokens[pos + 1].value])
    ELSE IF check("LEFT_PAREN", pos) THEN
        Then(expression(ParserAdvance(pos)), LAMBDA expr :
        Then(consume("RIGHT_PAREN", "Expected ')' after expression", expr.pos),
             LAMBDA close :
        Returned(close.pos, expr.node)))
    ELSE ParseError("Expected expression", pos)

\* the do-while loop over the parameters of a declaration
RECURSIVE Parameters(_, _)
Parameters(pos, params) ==
    Then(parseType(pos), LAMBDA paramType :
    Then(consume("IDENTIFIER", "Expected parameter name", paramType.pos),
         LAMBDA paramName :
    IF check("COMMA", paramName.pos)
    THEN Parameters(ParserAdvance(paramName.pos),
                    Append(params, [type |-> paramType.node,
                                    name |-> paramName.node.value]))
    ELSE Returned(paramName.pos,
                  Append(params, [type |-> paramType.node,
                                  name |-> paramName.node.value]))))

\* if (!check(RIGHT_PAREN)) do { ... } while (match(COMMA))
ParameterList(pos) ==
    IF check("RIGHT_PAREN", pos) THEN Returned(pos, <<>>) ELSE Parameters(pos, <<>>)

\* Parser::importStatement
importStatement(pos) ==
    Then(consume("STRING", "Expected module name after 'import'", pos),
         LAMBDA moduleName :
    Then(consume("SEMICOLON", "Expected ';' after import statement", moduleName.pos),
         LAMBDA semi :
    Returned(semi.pos, [kind |-> "import", moduleName |-> moduleName.node.value])))

\* Parser::externDeclaration
externDeclaration(pos) ==
    Then(parseType(pos), LAMBDA returnType :
    Then(consume("IDENTIFIER", "Expected function name", returnType.pos),
         LAMBDA functionName :
    Then(consume("LEFT_PAREN", "Expected '(' after function name", functionName.pos),
         LAMBDA open :
    Then(ParameterList(open.pos), LAMBDA params :
    Then(consume("RIGHT_PAREN", "Expected ')' after parameters", params.pos),
         LAMBDA close :
    Then(consume("SEMICOLON", "Expected ';' after extern declaration", close.pos),
         LAMBDA semi :
    Returned(semi.pos, [kind |-> "ExternDeclaration",
                        returnType |-> returnType.node,
                        name |-> functionName.node.value,
                        parameters |-> params.node])))))))

\* Parser::returnStatement
returnStatement(pos) ==
    Then(IF ~check("SEMICOLON", pos) THEN expression(pos)
         ELSE Returned(pos, Nullptr), LAMBDA value :
    Then(consume("SEMICOLON", "Expected ';' after return value", value.pos),
         LAMBDA semi :
    Returned(semi.pos, [kind |-> "ReturnStatement", value |-> value.node])))

\* Parser::expressionStatement
expressionStatement(pos) ==
    IF check("IDENTIFIER", pos) /\ peekToken(pos).type = "ASSIGN" THEN
        Then(expression(ParserAdvance(ParserAdvance(pos))), LAMBDA value :
        Then(consume("SEMICOLON", "Expected ';' after assignment", value.pos),
             LAMBDA semi :
        Returned(semi.pos, [kind |-> "Assignment",
                            name |-> currentToken(pos).value,
                            value |-> value.node])))
    ELSE
        Then(expression(pos), LAMBDA expr :
        Then(consume("SEMICOLON", "Expected ';' after expression", expr.pos),
             LAMBDA semi :
        Returned(semi.pos, [kind |-> "ExpressionStatement",
                            expression |-> expr.node])))

RECURSIVE statement(_), declaration(_), ifStatement(_), whileStatement(_)
RECURSIVE block(_), BlockLoop(_, _)

\* Parser::statement
statement(pos) ==
    IF check("IMPORT", pos) THEN importStatement(ParserAdvance(pos))
    ELSE IF check("EXTERN", pos) THEN externDeclaration(ParserAdvance(pos))
    ELSE IF \E t \in {"INT", "FLOAT", "STRING_KW", "BOOL", "VOID"} : check(t, pos)
        THEN declaration(pos)
    ELSE IF check("IF", pos) THEN ifStatement(ParserAdvance(pos))
    ELSE IF check("WHILE", pos) THEN whileStatement(ParserAdvance(pos))
    ELSE IF check("RETURN", pos) THEN returnStatement(ParserAdvance(pos))
    ELSE IF check("LEFT_BRACE", pos) THEN block(ParserAdvance(pos))
    ELSE expressionStatement(pos)

\* Parser::declaration
declaration(pos) ==
    Then(parseType(pos), LAMBDA type :
    Then(consume("IDENTIFIER", "Expected identifier", type.pos), LAMBDA name :
    IF check("LEFT_PAREN", name.pos) THEN
        Then(ParameterList(ParserAdvance(name.pos)), LAMBDA params :
        Then(consume("RIGHT_PAREN", "Expected ')' after parameters", params.pos),
             LAMBDA close :
        Then(IF check("LEFT_BRACE", close.pos)
             THEN block(ParserAdvance(close.pos))
             ELSE Then(consume("SEMICOLON",
                               "Expected ';' or '{' after function declaration",
                               close.pos),
                       LAMBDA semi : Returned(semi.pos, Nullptr)), LAMBDA body :
        Returned(body.pos, [kind |-> "FunctionDeclaration",
                            returnType |-> type.node,
                            name |-> name.node.value,
                            parameters |-> params.node,
                            body |-> body.node]))))
    ELSE
        Then(IF check("ASSIGN", name.pos) THEN expression(ParserAdvance(name.pos))
             ELSE Returned(name.pos, Nullptr), LAMBDA initializer :
        Then(consume("SEMICOLON", "Expected ';' after variable declaration",
                     initializer.pos), LAMBDA semi :
        Returned(semi.pos, [kind |-> "VariableDeclaration",
                            type |-> type.node,
                            name |-> name.node.value,
                            initializer |-> initializer.node])))))

\* Parser::ifStatement
ifStatement(pos) ==
    Then(consume("LEFT_PAREN", "Expected '(' after 'if'", pos), LAMBDA open :
    Then(expression(open.pos), LAMBDA condition :
    Then(consume("RIGHT_PAREN", "Expected ')' after if condition", condition.pos),
         LAMBDA close :
    Then(statement(close.pos), LAMBDA thenStmt :
    Then(IF check("ELSE", thenStmt.pos)
         THEN statement(ParserAdvance(thenStmt.pos))
         ELSE Returned(thenStmt.pos, Nullptr), LAMBDA elseStmt :
    Returned(elseStmt.pos, [kind |-> "IfStatement",
                            condition |-> condition.node,
                            thenStatement |-> thenStmt.node,
                            elseStatement |-> elseStmt.node]))))))

\* Parser::whileStatement
whileStatement(pos) ==
    Then(consume("LEFT_PAREN", "Expected '(' after 'while'", pos), LAMBDA open :
    Then(expression(open.pos), LAMBDA condition :
    Then(consume("RIGHT_PAREN", "Expected ')' after while condition", condition.pos),
         LAMBDA close :
    Then(statement(close.pos), LAMBDA body :
    Returned(body.pos, [kind |-> "WhileStatement",
                        condition |-> condition.node, body |-> body.node])))))

\* the while loop of Parser::block, then consume(RIGHT_BRACE)
BlockLoop(pos, statements) ==
    IF ~check("RIGHT_BRACE", pos) /\ ~isAtEnd(pos) THEN
        Then(statement(pos), LAMBDA stmt :
        BlockLoop(stmt.pos, Append(statements, stmt.node)))
    ELSE
        Then(consume("RIGHT_BRACE", "Expected '}' after block", pos), LAMBDA close :
        Returned(close.pos, [kind |-> "Block", statements |-> statements]))

\* Parser::block
block(pos) == BlockLoop(pos, <<>>)

\* the error recovery of Parser::parse: skip up to the next ';' or '}', then
\* match(SEMICOLON)
RECURSIVE SkipToNextStatement(_)
SkipToNextStatement(pos) ==
    IF ~isAtEnd(pos) /\ ~check("SEMICOLON", pos) /\ ~check("RIGHT_BRACE", pos)
    THEN SkipToNextStatement(ParserAdvance(pos))
    ELSE pos

Recover(pos) == match("SEMICOLON", SkipToNextStatement(pos))

\* std::cerr << "Parse error: " ...
CountError(count) == IF count < MaxErrorLog THEN count + 1 ELSE count

(***************************************************************************)
(* Specification of the parser: Thor::Parser::parse on every token         *)
(* sequence, one iteration of the parse loop per step.                     *)
(***************************************************************************)
ParserTokens ==
    {Token("IDENTIFIER", <<"a">>, 1, 1), Token("NUMBER", <<"1">>, 1, 1),
     Token("SEMICOLON", <<";">>, 1, 1), Token("LEFT_BRACE", <<"{">>, 1, 1),
     Token("RIGHT_BRACE", <<"}">>, 1, 1), Token("LEFT_PAREN", <<"(">>, 1, 1),
     Token("RIGHT_PAREN", <<")">>, 1, 1), Token("ASSIGN", <<"=">>, 1, 1),
     Token("INT", <<"i", "n", "t">>, 1, 1), Token("PLUS", <<"+">>, 1, 1)}

TokenSequences == UNION {[1..n -> ParserTokens] : n \in 0..MaxTokens}

InitParser ==
    /\ ImportIdle
    /\ source = <<>>
    /\ lexer = NewLexer
    /\ lexPc = "idle"
    /\ tokens \in TokenSequences
    /\ ParseIdle
    /\ DriverIdle
    /\ GenIdle

\* Parser parser(tokens); parser.parse() is entered
ParseBegin ==
    /\ parsePc = "idle"
    /\ parsePc' = "parsing"
    /\ current' = 0
    /\ program' = <<>>
    /\ errorCount' = 0
    /\ UNCHANGED <<importVars, lexVars, driver, genVars, frontVars>>

\* an iteration of the parse loop in which statement() returns
ParseStatement ==
    /\ parsePc = "parsing"
    /\ ~isAtEnd(current)
    /\ statement(current).ok
    /\ current' = statement(current).pos
    /\ program' = Append(program, statement(current).node)
    /\ UNCHANGED <<errorCount, parsePc>>
    /\ UNCHANGED <<importVars, lexVars, driver, genVars, frontVars>>

\* an iteration of the parse loop in which statement() throws a ParseError
ParseRecover ==
    /\ parsePc = "parsing"
    /\ ~isAtEnd(current)
    /\ ~statement(current).ok
    /\ current' = Recover(statement(current).pos)
    /\ errorCount' = CountError(errorCount)
    /\ UNCHANGED <<program, parsePc>>
    /\ UNCHANGED <<importVars, lexVars, driver, genVars, frontVars>>

\* the loop condition fails: return program
ParseReturn ==
    /\ parsePc = "parsing"
    /\ isAtEnd(current)
    /\ parsePc' = "returned"
    /\ UNCHANGED <<current, program, errorCount>>
    /\ UNCHANGED <<importVars, lexVars, driver, genVars, frontVars>>

NextParser ==
    \/ ParseBegin
    \/ ParseStatement
    \/ ParseRecover
    \/ ParseReturn

SpecParser == InitParser /\ [][NextParser]_vars

\* C5 (as claimed): every iteration of the parse loop that catches a
\* ParseError resumes with strictly fewer tokens remaining than it started
\* with, whatever token the error occurred on.
C5_RecoveryLeavesFewerTokens ==
    [][(parsePc = "parsing" /\ ~isAtEnd(current) /\ ~statement(current).ok)
          => Len(tokens) - current' < Len(tokens) - current]_vars

(***************************************************************************)
(* The compiler driver: main() of the Thor compiler.                       *)
(***************************************************************************)
\* Parser::parse as a whole: the statement loop from Parser::current = pos.
\* returns is FALSE where an iteration catches a ParseError and resumes at
\* the position it started from, so that the loop never ends.
RECURSIVE ParseLoop(_, _, _)
ParseLoop(pos, statements, count) ==
    IF isAtEnd(pos) THEN
        [returns |-> TRUE, program |-> statements, errorCount |-> count]
    ELSE LET stmt == statement(pos)
         IN  IF stmt.ok
             THEN ParseLoop(stmt.pos, Append(statements, stmt.node), count)
             ELSE IF Recover(stmt.pos) = pos
             THEN [returns |-> FALSE, program |-> statements,
                   errorCount |-> CountError(count)]
             ELSE ParseLoop(Recover(stmt.pos), statements, CountError(count))

parse == ParseLoop(0, <<>>, 0)

\* the std::string of a token value
RECURSIVE Text(_)
Text(chars) == IF chars = <<>> THEN "" ELSE Head(chars) \o Text(Tail(chars))

\* The top-level statements of the parser's Program as processImports sees them.
TopLevel(statements) ==
    [i \in 1..Len(statements) |->
        IF IsImport(statements[i]) THEN ImportStmt(Text(statements[i].moduleName))
        ELSE statements[i]]

\* ImportProcessor::processImports as a whole.
RECURSIVE RunCall(_)
RunCall(s) == IF Running(s) THEN RunCall(StepCall(s)) ELSE s

processImports(mainProgram, mainFile) ==
    RunCall(BeginCall(NewImportProcessor, TopLevel(mainProgram), mainFile))

\* options.inputFile
InputFile == Path("cwd", "main.thor")

\* The source text import"a"; and the same text followed by a statement.
ImportSources ==
    {<<"i", "m", "p", "o", "r", "t", Quote, "a", Quote, ";">>,
     <<"i", "m", "p", "o", "r", "t", Quote, "a", Quote, ";", "a", ";">>}

DriverSources ==
    UNION {[1..n -> SourceChars] : n \in 0..MaxDriverSourceLen} \cup ImportSources

NewDriver(inputExists) ==
    [stage |-> "start", inputExists |-> inputExists, exitCode |-> -1,
     error |-> [message |-> "none", line |-> 0], cCode |-> <<>>, cFileWritten |-> FALSE,
     compilerInvoked |-> FALSE]

\* return code, after std::cerr << "Error: " << e.what() where code is 1
Exit(d, code, message) ==
    [d EXCEPT !.stage = "exited", !.exitCode = code,
              !.error = [message |-> message, line |-> 0]]

InitDriver ==
    /\ ImportIdle
    /\ source \in DriverSources
    /\ lexer = NewLexer
    /\ tokens = <<>>
    /\ lexPc = "idle"
    /\ ParseIdle
    /\ \E inputExists \in BOOLEAN : driver = NewDriver(inputExists)
    /\ GenIdle

\* std::string sourceCode = readFile(options.inputFile)
DriverRead ==
    /\ driver.stage = "start"
    /\ driver' = IF driver.inputExists THEN [driver EXCEPT !.stage = "read"]
                 ELSE Exit(driver, 1, "Could not open file")
    /\ UNCHANGED <<importVars, lexVars, parseVars, genVars, frontVars>>

\* Thor::Lexer lexer(sourceCode); tokens = lexer.tokenize()
DriverTokenize ==
    /\ driver.stage = "read"
    /\ tokens' = tokenizeFrom(NewLexer, <<>>)
    /\ driver' = [driver EXCEPT !.stage = "tokenized"]
    /\ UNCHANGED <<source, lexer, lexPc>>
    /\ UNCHANGED <<importVars, parseVars, genVars, frontVars>>

\* Thor::Parser parser(tokens); program = parser.parse(), which returns a
\* Program whether or not it printed parse errors
DriverParse ==
    /\ driver.stage = "tokenized"
    /\ parse.returns
    /\ program' = parse.program
    /\ errorCount' = parse.errorCount
    /\ driver' = [driver EXCEPT !.stage = "parsed"]
    /\ UNCHANGED <<current, parsePc>>
    /\ UNCHANGED <<importVars, lexVars, genVars, frontVars>>

\* parser.parse() does not return
DriverParseHangs ==
    /\ driver.stage = "tokenized"
    /\ ~parse.returns
    /\ program' = parse.program
    /\ errorCount' = parse.errorCount
    /\ driver' = [driver EXCEPT !.stage = "parsing"]
    /\ UNCHANGED <<current, parsePc>>
    /\ UNCHANGED <<importVars, lexVars, genVars, frontVars>>

\* A driver that goes on to generate after processImports has thrown.
DriverProcessImportsSwallowing ==
    /\ driver.stage = "parsed"
    /\ ip' = processImports(program, InputFile)
    /\ driver' = [driver EXCEPT !.stage = "imported"]
    /\ UNCHANGED <<files, fresh, priorCall>>
    /\ UNCHANGED <<lexVars, parseVars, genVars, frontVars>>

\* importProcessor.processImports(std::move(program), options.inputFile)
DriverProcessImports ==
    /\ driver.stage = "parsed"
    /\ ip' = processImports(program, InputFile)
    /\ driver' = IF ip'.status = "failed" THEN Exit(driver, 1, "Module not found")
                 ELSE [driver EXCEPT !.stage = "imported"]
    /\ UNCHANGED <<files, fresh, priorCall>>
    /\ UNCHANGED <<lexVars, parseVars, genVars, frontVars>>

\* cCode = generator.generate(processedProgram.get())
DriverGenerate ==
    /\ driver.stage = "imported"
    /\ driver' = [driver EXCEPT !.stage = "generated",
                                !.cCode = ip.mergedProgram]
    /\ UNCHANGED <<importVars, lexVars, parseVars, genVars, frontVars>>

\* writeFile(cFile, cCode), which throws when the file cannot be created
DriverWrite ==
    /\ driver.stage = "generated"
    /\ \E created \in BOOLEAN :
          driver' = IF created
                    THEN [driver EXCEPT !.stage = "written", !.cFileWritten = TRUE]
                    ELSE Exit(driver, 1, "Could not create file")
    /\ UNCHANGED <<importVars, lexVars, parseVars, genVars, frontVars>>

\* the automatic compilation and the return from main
DriverCompile ==
    /\ driver.stage = "written"
    /\ \E outcome \in {"no-compile", "no-compiler", "compiled", "compile-failed"} :
          driver' = [Exit(driver, IF outcome = "compile-failed" THEN 1 ELSE 0,
                          IF outcome = "compile-failed"
                          THEN "Failed to compile C code" ELSE "none")
                     EXCEPT !.compilerInvoked =
                                outcome \in {"compiled", "compile-failed"}]
    /\ UNCHANGED <<importVars, lexVars, parseVars, genVars, frontVars>>

NextDriver ==
    \/ DriverRead
    \/ DriverTokenize
    \/ DriverParse
    \/ DriverParseHangs
    \/ DriverProcessImports
    \/ DriverGenerate
    \/ DriverWrite
    \/ DriverCompile

SpecDriver == InitDriver /\ [][NextDriver]_vars

\* C6 (as claimed): import resolution and code generation are never run on a
\* program produced by a parse that reported a syntax error.
C6_ErrorsStopThePipeline ==
    driver.stage \in {"imported", "generated", "written"} => errorCount = 0

\* The source holds one '"' and no comment: a string literal is opened and
\* never closed.
UnterminatedString ==
    /\ Cardinality({i \in DOMAIN source : source[i] = Quote}) = 1
    /\ \A i \in DOMAIN source : source[i] # "/"

\* The line of the opening quote.
OpeningLine ==
    LET q == CHOOSE i \in DOMAIN source : source[i] = Quote
    IN  1 + Cardinality({i \in 1..(q - 1) : source[i] = Newline})

\* C8 (as claimed): once a source with an unterminated string literal has
\* been lexed, the driver has stopped with a lexical error that reports the
\* line of the opening quote, no STRING token exists and the parser has
\* not run.
C8_UnterminatedStringIsLexError ==
    (UnterminatedString /\ driver.inputExists
                        /\ driver.stage \notin {"start", "read"}) =>
        /\ driver.stage = "exited"
        /\ driver.exitCode = 1
        /\ driver.error = [message |-> "Unterminated string", line |-> OpeningLine]
        /\ \A i \in DOMAIN tokens : tokens[i].type # "STRING"
        /\ program = <<>> /\ errorCount = 0

(***************************************************************************)
(* Thor::CodeGenerator.  The object is a record: output is the sequence    *)
(* of the strings written to the output stream, levels is the history of   *)
(* the values indentLevel has taken since the last reset (its last element *)
(* is indentLevel).  Every generating function takes the object and yields *)
(* the object as the function leaves it.                                   *)
(***************************************************************************)
\* Number of top-level statements of the programs given to the generators.
MaxGenStmts == 2

GenNumber == [kind |-> "NumberLiteral", value |-> "1"]
GenString == [kind |-> "StringLiteral", value |-> "s"]
GenIdentifier == [kind |-> "Identifier", name |-> "x"]

FunctionCall(name, arguments) ==
    [kind |-> "FunctionCall", name |-> name, arguments |-> arguments]

UnaryOperation(op, operand) ==
    [kind |-> "UnaryOperation", op |-> op, operand |-> operand]

ExpressionStatement(expr) == [kind |-> "ExpressionStatement", expression |-> expr]

Assignment(name, value) == [kind |-> "Assignment", name |-> name, value |-> value]

VariableDeclaration(type, name, initializer) ==
    [kind |-> "VariableDeclaration", type |-> type, name |-> name,
     initializer |-> initializer]

ReturnStatement(value) == [kind |-> "ReturnStatement", value |-> value]

Block(statements) == [kind |-> "Block", statements |-> statements]

IfStatement(condition, thenStatement, elseStatement) ==
    [kind |-> "IfStatement", condition |-> condition,
     thenStatement |-> thenStatement, elseStatement |-> elseStatement]

WhileStatement(condition, body) ==
    [kind |-> "WhileStatement", condition |-> condition, body |-> body]

FunctionDeclaration(returnType, name, parameters, body) ==
    [kind |-> "FunctionDeclaration", returnType |-> returnType, name |-> name,
     parameters |-> parameters, body |-> body]

ExternDeclaration(returnType, name, parameters) ==
    [kind |-> "ExternDeclaration", returnType |-> returnType, name |-> name,
     parameters |-> parameters]

\* Calls of the two built-ins, under a qualified and an unqualified name,
\* and of a user function.
PrintlnCall == FunctionCall("println", <<GenString>>)
PrintCall == FunctionCall("std::print", <<GenIdentifier>>)
UserCall == FunctionCall("f", <<GenNumber>>)

\* The statements the generated programs are made of: every statement and
\* expression class of the AST, with calls at nesting depths one to five.
GenStatements ==
    {ExpressionStatement(c) : c \in {PrintlnCall, PrintCall, UserCall}}
    \cup {ExpressionStatement(FunctionCall("f", <<GenIdentifier, c>>)) :
            c \in {PrintlnCall, PrintCall}}
    \cup {ExpressionStatement(BinaryOperation(GenString, "==", GenString)),
          ExpressionStatement(BinaryOperation(GenIdentifier, "==", GenNumber)),
          Assignment("x", BinaryOperation(PrintlnCall, "+", GenNumber)),
          VariableDeclaration("INT", "x", UnaryOperation("-", PrintCall)),
          VariableDeclaration("STRING", "x", Nullptr),
          ReturnStatement(PrintCall),
          ReturnStatement(Nullptr),
          Block(<<ExpressionStatement(PrintlnCall), ExpressionStatement(UserCall)>>),
          IfStatement(GenIdentifier, Block(<<ExpressionStatement(PrintCall)>>), Nullptr),
          IfStatement(PrintlnCall, ExpressionStatement(UserCall),
                      Block(<<ReturnStatement(Nullptr)>>)),
          IfStatement(GenIdentifier, ExpressionStatement(UserCall),
                      ExpressionStatement(PrintlnCall)),
          WhileStatement(GenIdentifier, Block(<<Assignment("x", PrintCall)>>)),
          WhileStatement(PrintCall, ExpressionStatement(UserCall)),
          FunctionDeclaration("VOID", "main", <<>>,
              Block(<<WhileStatement(GenIdentifier,
                        Block(<<IfStatement(GenIdentifier,
                                  Block(<<ExpressionStatement(PrintlnCall)>>),
                                  Nullptr)>>))>>)),
          FunctionDeclaration("INT", "f", <<[type |-> "INT", name |-> "x"]>>, Nullptr),
          ExternDeclaration("VOID", "g", <<[type |-> "STRING", name |-> "x"]>>),
          ImportStmt("a")}

\* Program::statements of the programs given to generate.
GenPrograms ==
    UNION {[1..n -> GenStatements] : n \in 0..MaxGenStmts}

\* typeToCType
typeToCType(type) ==
    CASE type = "INT" -> "int"
      [] type = "FLOAT" -> "float"
      [] type = "STRING" -> "char*"
      [] type = "BOOL" -> "int"
      [] type = "VOID_PTR" -> "void*"
      [] OTHER -> "void"

\* CodeGenerator::CodeGenerator.  addBracesDefault is the default argument of
\* generateBlock's addBraces, which the class declaration fixes.
NewCodeGenerator(addBracesDefault) ==
    [output |-> <<>>, includedHeaders |-> {}, builtinFunctions |-> {},
     indentLevel |-> 0, levels |-> <<0>>, addBracesDefault |-> addBracesDefault]

\* CodeGenerator::reset when it leaves builtinFunctions as they are
resetKeepsBuiltins(g) ==
    [g EXCEPT !.output = <<>>, !.includedHeaders = {},
              !.indentLevel = 0, !.levels = <<0>>]

\* CodeGenerator::reset
reset(g) ==
    [g EXCEPT !.output = <<>>, !.includedHeaders = {}, !.builtinFunctions = {},
              !.indentLevel = 0, !.levels = <<0>>]

\* output << piece << piece ...
Out(g, pieces) == [g EXCEPT !.output = @ \o pieces]

\* CodeGenerator::indent
indent(g) ==
    CHOOSE next \in {Out(r, [i \in 1..r.indentLevel |-> "    "]) : r \in {g}} : TRUE

\* indentLevel++
IndentMore(g) ==
    [g EXCEPT !.indentLevel = @ + 1, !.levels = Append(@, @[Len(@)] + 1)]

\* indentLevel--
IndentLess(g) ==
    [g EXCEPT !.indentLevel = @ - 1, !.levels = Append(@, @[Len(@)] - 1)]

\* CodeGenerator::generateIncludes
generateIncludes(g) ==
    Out(g, <<"#include <stdio.h>\n", "#include <stdlib.h>\n",
             "#include <string.h>\n", "\n">>)

\* The lines of the two helper functions.
PrintlnHelper ==
    <<"// Built-in function for std::println\n",
      "void thor_println(const char* str) {\n",
      "    printf(\"%s\\n\", str);\n", "}\n\n">>

PrintHelper ==
    <<"// Built-in function for std::print\n",
      "void thor_print(const char* str) {\n",
      "    printf(\"%s\", str);\n", "}\n\n">>

\* CodeGenerator::generateBuiltinFunctions
generateBuiltinFunctions(g) ==
    CHOOSE next \in
        {Out(r, (IF "std::println" \in r.builtinFunctions THEN PrintlnHelper ELSE <<>>)
                \o (IF "std::print" \in r.builtinFunctions THEN PrintHelper ELSE <<>>)) :
            r \in {g}} : TRUE

\* CodeGenerator::isBuiltinFunction
isBuiltinFunction(name) ==
    name = "std::println" \/ name = "std::print" \/ name = "println" \/ name = "print"

\* CodeGenerator::addBuiltinFunction
addBuiltinFunction(g, name) ==
    IF name = "println" \/ name = "std::println"
    THEN [g EXCEPT !.builtinFunctions = @ \cup {"std::println"}]
    ELSE IF name = "print" \/ name = "std::print"
    THEN [g EXCEPT !.builtinFunctions = @ \cup {"std::print"}]
    ELSE g

\* CodeGenerator::translateBuiltinFunction
translateBuiltinFunction(name) ==
    IF name = "std::println" \/ name = "println" THEN "thor_println"
    ELSE IF name = "std::print" \/ name = "print" THEN "thor_print"
    ELSE name

\* One step after another: Continue is applied to the object as the step
\* before it has left it.
AndThen(g, Continue(_)) == CHOOSE next \in {Continue(r) : r \in {g}} : TRUE

RECURSIVE scanForBuiltins(_, _), ScanEach(_, _, _)

\* the loops of scanForBuiltins and of generate's first pass over a vector of nodes
ScanEach(g, nodes, i) ==
    IF i > Len(nodes) THEN g
    ELSE AndThen(scanForBuiltins(g, nodes[i]), LAMBDA r : ScanEach(r, nodes, i + 1))

\* scanForBuiltins when it looks at the calls that are statements of the
\* program and at nothing below them
scanTopLevelCallsOnly(g, node) ==
    IF node.kind = "ExpressionStatement" /\ node.expression.kind = "FunctionCall"
    THEN addBuiltinFunction(g, node.expression.name)
    ELSE g

\* CodeGenerator::scanForBuiltins
scanForBuiltins(g, node) ==
    CASE node.kind = "FunctionCall" ->
            ScanEach(IF isBuiltinFunction(node.name)
                     THEN addBuiltinFunction(g, node.name) ELSE g,
                     node.arguments, 1)
      [] node.kind = "BinaryOperation" ->
            scanForBuiltins(scanForBuiltins(g, node.left), node.right)
      [] node.kind = "UnaryOperation" -> scanForBuiltins(g, node.operand)
      [] node.kind = "VariableDeclaration" ->
            IF node.initializer.kind # "nullptr"
            THEN scanForBuiltins(g, node.initializer) ELSE g
      [] node.kind = "Assignment" -> scanForBuiltins(g, node.value)
      [] node.kind = "ExpressionStatement" -> scanForBuiltins(g, node.expression)
      [] node.kind = "ReturnStatement" ->
            IF node.value.kind # "nullptr" THEN scanForBuiltins(g, node.value) ELSE g
      [] node.kind = "Block" -> ScanEach(g, node.statements, 1)
      [] node.kind = "IfStatement" ->
            IF node.elseStatement.kind # "nullptr"
            THEN scanForBuiltins(
                     scanForBuiltins(scanForBuiltins(g, node.condition),
                                     node.thenStatement),
                     node.elseStatement)
            ELSE scanForBuiltins(scanForBuiltins(g, node.condition),
                                 node.thenStatement)
      [] node.kind = "WhileStatement" ->
            scanForBuiltins(scanForBuiltins(g, node.condition), node.body)
      [] node.kind = "FunctionDeclaration" ->
            IF node.body.kind # "nullptr" THEN scanForBuiltins(g, node.body) ELSE g
      [] OTHER -> g

RECURSIVE generateExpression(_, _), GenerateArguments(_, _, _)
RECURSIVE generateStatement(_, _), GenerateStatements(_, _, _)

\* the argument loop of generateFunctionCall
GenerateArguments(g, arguments, i) ==
    IF i > Len(arguments) THEN g
    ELSE AndThen(generateExpression(IF i > 1 THEN Out(g, <<", ">>) ELSE g,
                                    arguments[i]),
                 LAMBDA r : GenerateArguments(r, arguments, i + 1))

\* CodeGenerator::generateBinaryOperation
generateBinaryOperation(g, op) ==
    Out(generateExpression(
            Out(generateExpression(Out(g, <<"(">>), op.left),
                <<" ", op.op, " ">>),
            op.right),
        <<")">>)

\* CodeGenerator::generateFunctionCall
generateFunctionCall(g, node) ==
    Out(GenerateArguments(
            Out(IF isBuiltinFunction(node.name)
                THEN Out(addBuiltinFunction(g, node.name),
                         <<translateBuiltinFunction(node.name)>>)
                ELSE Out(g, <<node.name>>),
                <<"(">>),
            node.arguments, 1),
        <<")">>)

\* CodeGenerator::generateExpression with generateNumberLiteral,
\* generateStringLiteral, generateBoolLiteral, generateIdentifier and
\* generateUnaryOperation
generateExpression(g, expr) ==
    CASE expr.kind = "NumberLiteral" -> Out(g, <<expr.value>>)
      [] expr.kind = "StringLiteral" -> Out(g, <<"\"", expr.value, "\"">>)
      [] expr.kind = "BoolLiteral" -> Out(g, <<IF expr.value THEN "1" ELSE "0">>)
      [] expr.kind = "Identifier" -> Out(g, <<expr.name>>)
      [] expr.kind = "BinaryOperation" -> generateBinaryOperation(g, expr)
      [] expr.kind = "UnaryOperation" ->
            Out(generateExpression(Out(g, <<expr.op, "(">>), expr.operand), <<")">>)
      [] expr.kind = "FunctionCall" -> generateFunctionCall(g, expr)
      [] OTHER -> g

\* the loop of generate and of generateBlock: each statement, then "\n"
GenerateStatements(g, statements, i) ==
    IF i > Len(statements) THEN g
    ELSE AndThen(Out(generateStatement(g, statements[i]), <<"\n">>),
                 LAMBDA r : GenerateStatements(r, statements, i + 1))

\* CodeGenerator::generateBlock
generateBlock(g, blk, addBraces) ==
    IF addBraces
    THEN Out(indent(IndentLess(
                 GenerateStatements(IndentMore(Out(indent(g), <<"{\n">>)),
                                    blk.statements, 1))),
             <<"}">>)
    ELSE GenerateStatements(g, blk.statements, 1)

\* the body of an if, else or while when the decrement after it is left out
BranchKeepsLevel(g, stmt) ==
    IF stmt.kind = "Block"
    THEN Out(indent(generateBlock(IndentMore(Out(g, <<"{\n">>)), stmt, FALSE)),
             <<"}">>)
    ELSE generateStatement(IndentMore(Out(g, <<"\n">>)), stmt)

\* the body of an if, of an else and of a while: a Block is put in braces
\* here, any other statement on a line of its own
Branch(g, stmt) ==
    IF stmt.kind = "Block"
    THEN Out(indent(IndentLess(
                 generateBlock(IndentMore(Out(g, <<"{\n">>)), stmt, FALSE))),
             <<"}">>)
    ELSE IndentLess(generateStatement(IndentMore(Out(g, <<"\n">>)), stmt))

\* the else part of generateIfStatement
ElseBranch(g, elseStatement) ==
    IF elseStatement.kind # "nullptr"
    THEN Branch(Out(g, <<" else ">>), elseStatement)
    ELSE g

\* CodeGenerator::generateIfStatement
generateIfStatement(g, stmt) ==
    ElseBranch(
        Branch(Out(generateExpression(Out(indent(g), <<"if (">>), stmt.condition),
                   <<") ">>),
               stmt.thenStatement),
        stmt.elseStatement)

\* CodeGenerator::generateWhileStatement
generateWhileStatement(g, stmt) ==
    Branch(Out(generateExpression(Out(indent(g), <<"while (">>), stmt.condition),
               <<") ">>),
           stmt.body)

RECURSIVE GenerateParameters(_, _, _)

\* the parameter loop of generateFunctionDeclaration and generateExternDeclaration
GenerateParameters(g, parameters, i) ==
    IF i > Len(parameters) THEN g
    ELSE GenerateParameters(
             Out(IF i > 1 THEN Out(g, <<", ">>) ELSE g,
                 <<typeToCType(parameters[i].type), " ", parameters[i].name>>),
             parameters, i + 1)

\* CodeGenerator::generateFunctionDeclaration
generateFunctionDeclaration(g, decl) ==
    IF decl.body.kind # "nullptr"
    THEN Out(IndentLess(
                 generateBlock(
                     IndentMore(
                         Out(GenerateParameters(
                                 Out(g, <<typeToCType(decl.returnType), " ",
                                          decl.name, "(">>),
                                 decl.parameters, 1),
                             <<") ", "{\n">>)),
                     decl.body, FALSE)),
             <<"}">>)
    ELSE Out(GenerateParameters(
                 Out(g, <<typeToCType(decl.returnType), " ", decl.name, "(">>),
                 decl.parameters, 1),
             <<") ", ";">>)

\* CodeGenerator::generateStatement with generateVariableDeclaration,
\* generateAssignment, generateExpressionStatement, generateReturnStatement
\* and generateExternDeclaration
generateStatement(g, stmt) ==
    CASE stmt.kind = "VariableDeclaration" ->
            IF stmt.initializer.kind # "nullptr"
            THEN Out(generateExpression(
                         Out(indent(g), <<typeToCType(stmt.type), " ", stmt.name,
                                          " = ">>),
                         stmt.initializer),
                     <<";">>)
            ELSE Out(indent(g), <<typeToCType(stmt.type), " ", stmt.name, ";">>)
      [] stmt.kind = "Assignment" ->
            Out(generateExpression(Out(indent(g), <<stmt.name, " = ">>), stmt.value),
                <<";">>)
      [] stmt.kind = "ExpressionStatement" ->
            Out(generateExpression(indent(g), stmt.expression), <<";">>)
      [] stmt.kind = "ReturnStatement" ->
            IF stmt.value.kind # "nullptr"
            THEN Out(generateExpression(Out(indent(g), <<"return", " ">>), stmt.value),
                     <<";">>)
            ELSE Out(indent(g), <<"return", ";">>)
      [] stmt.kind = "Block" ->
            CHOOSE next \in {generateBlock(r, stmt, r.addBracesDefault) : r \in {g}} :
                TRUE
      [] stmt.kind = "IfStatement" -> generateIfStatement(g, stmt)
      [] stmt.kind = "WhileStatement" -> generateWhileStatement(g, stmt)
      [] stmt.kind = "FunctionDeclaration" -> generateFunctionDeclaration(g, stmt)
      [] stmt.kind = "ExternDeclaration" ->
            Out(GenerateParameters(
                    Out(g, <<"extern ", typeToCType(stmt.returnType), " ",
                             stmt.name, "(">>),
                    stmt.parameters, 1),
                <<");">>)
      [] stmt.kind = "import" -> Out(indent(g), <<"// Import: ", stmt.moduleName>>)
      [] OTHER -> g

\* CodeGenerator::generate; what it returns is the output of the object it yields
generate(g, prog) ==
    AndThen(generateBuiltinFunctions(generateIncludes(ScanEach(reset(g), prog, 1))),
            LAMBDA r : GenerateStatements(r, prog, 1))

(***************************************************************************)
(* Calls of Thor::CodeGenerator::generate on one object: the first with    *)
(* any program, the later ones with the same program or with a short one.  *)
(* cg.before is the object as it was when the last call began, cg.fresh    *)
(* is what a newly constructed generator returns for cg.input.              *)
(***************************************************************************)
\* The programs of a second call that differ from the program of the first.
FollowUpPrograms ==
    {<<>>, <<ExpressionStatement(UserCall)>>, <<ExpressionStatement(PrintCall)>>,
     <<Block(<<ExpressionStatement(PrintlnCall), ExpressionStatement(UserCall)>>)>>}

ParserAndDriverIdle ==
    /\ ImportIdle
    /\ LexIdle
    /\ ParseIdle
    /\ DriverIdle
    /\ FrontIdle

InitCodeGen ==
    /\ ParserAndDriverIdle
    /\ \E prog \in GenPrograms, addBracesDefault \in BOOLEAN :
          cg = [stage |-> "constructed", input |-> prog,
                object |-> NewCodeGenerator(addBracesDefault),
                before |-> NewCodeGenerator(addBracesDefault),
                returned |-> <<>>, fresh |-> <<>>]
    /\ lg = [stage |-> "none"]

\* generator.generate(program) and the same call on a new CodeGenerator
Call(prog) ==
    AndThen(generate(cg.object, prog), LAMBDA r :
        [cg EXCEPT !.input = prog, !.before = cg.object,
                   !.object = r, !.returned = r.output,
                   !.fresh = generate(NewCodeGenerator(r.addBracesDefault),
                                      prog).output])

\* the first generate call on the object
Generate ==
    /\ cg.stage = "constructed"
    /\ cg' = [Call(cg.input) EXCEPT !.stage = "generated"]
    /\ UNCHANGED <<importVars, lexVars, parseVars, driver, lg, frontVars>>

\* a further generate call on the object, with the same program
GenerateSame ==
    /\ cg.stage \in {"generated", "generated again"}
    /\ cg' = [Call(cg.input) EXCEPT !.stage = "generated again"]
    /\ UNCHANGED <<importVars, lexVars, parseVars, driver, lg, frontVars>>

\* a further generate call on the object, with another program
GenerateOther ==
    /\ cg.stage \in {"generated", "generated again"}
    /\ \E prog \in FollowUpPrograms \ {cg.input} :
          cg' = [Call(prog) EXCEPT !.stage = "generated again"]
    /\ UNCHANGED <<importVars, lexVars, parseVars, driver, lg, frontVars>>

NextCodeGen ==
    \/ Generate
    \/ GenerateSame
    \/ GenerateOther

SpecCodeGen == InitCodeGen /\ [][NextCodeGen]_vars

RECURSIVE CalledNames(_)

\* The nodes directly below an AST node.
SubNodes(node) ==
    CASE node.kind = "FunctionCall" -> node.arguments
      [] node.kind = "BinaryOperation" -> <<node.left, node.right>>
      [] node.kind = "UnaryOperation" -> <<node.operand>>
      [] node.kind = "VariableDeclaration" -> <<node.initializer>>
      [] node.kind = "Assignment" -> <<node.value>>
      [] node.kind = "ExpressionStatement" -> <<node.expression>>
      [] node.kind = "ReturnStatement" -> <<node.value>>
      [] node.kind = "Block" -> node.statements
      [] node.kind = "IfStatement" ->
            <<node.condition, node.thenStatement, node.elseStatement>>
      [] node.kind = "WhileStatement" -> <<node.condition, node.body>>
      [] node.kind = "FunctionDeclaration" -> <<node.body>>
      [] OTHER -> <<>>

\* The names of the functions called anywhere in or below a node.
CalledNames(node) ==
    (IF node.kind = "FunctionCall" THEN {node.name} ELSE {})
    \cup UNION {CalledNames(SubNodes(node)[i]) : i \in DOMAIN SubNodes(node)}

\* The names of the functions called anywhere in a program.
CalledIn(prog) == UNION {CalledNames(prog[i]) : i \in DOMAIN prog}

\* The positions of the text where a call of the C function is written, and
\* whether the line that opens the definition of a helper is in the text.
CallsOf(text, cName) ==
    {i \in DOMAIN text : text[i] = cName /\ i < Len(text) /\ text[i + 1] = "("}

DefinitionsOf(text, helper) == {i \in DOMAIN text : text[i] = helper[2]}

\* One helper: defined once if and only if its built-in is called somewhere
\* in the program, defined before every call of it, and called if defined.
HelperMatchesCalls(text, prog, helper, cName, names) ==
    /\ Cardinality(DefinitionsOf(text, helper)) =
           IF CalledIn(prog) \cap names # {} THEN 1 ELSE 0
    /\ \A i \in CallsOf(text, cName) :
           \E d \in DefinitionsOf(text, helper) : d < i
    /\ DefinitionsOf(text, helper) # {} => CallsOf(text, cName) # {}

\* C11: the text generate returns defines thor_println (thor_print) if and
\* only if the program calls println or std::println (print or std::print)
\* at any nesting depth; every emitted call of a helper comes after the
\* helper's definition and no helper is defined without being called.
C11_HelpersMatchBuiltinCalls ==
    cg.stage \in {"generated", "generated again"} =>
        /\ HelperMatchesCalls(cg.returned, cg.input, PrintlnHelper, "thor_println",
                              {"println", "std::println"})
        /\ HelperMatchesCalls(cg.returned, cg.input, PrintHelper, "thor_print",
                              {"print", "std::print"})

\* A program whose only built-in call is the argument of a call inside a
\* nested block has been generated, and one with no built-in call at all.
C11_Witness ==
    /\ cg.stage = "generated"
    /\ \E i \in DOMAIN cg.input :
          /\ cg.input[i].kind = "FunctionDeclaration"
          /\ cg.input[i].body.kind = "Block"
    /\ \A i \in DOMAIN cg.input : cg.input[i].kind \in {"FunctionDeclaration", "import"}
    /\ CalledIn(cg.input) = {"println"}
    /\ CallsOf(cg.returned, "thor_println") # {}
    /\ DefinitionsOf(cg.returned, PrintHelper) = {}

\* C20: every generate call on a CodeGenerator object, whatever the object
\* was used for before, returns the text that a newly constructed
\* CodeGenerator returns for the same program.
C20_GenerateIsPure ==
    cg.stage \in {"generated", "generated again"} => cg.returned = cg.fresh

\* A second call on an object that an earlier call left with output, with
\* both helpers referenced, for a program that calls no built-in.
C20_Witness ==
    /\ cg.stage = "generated again"
    /\ cg.before.output # <<>>
    /\ cg.before.builtinFunctions = {"std::println", "std::print"}
    /\ cg.input # <<>>
    /\ CalledIn(cg.input) = {"f"}
    /\ cg.returned = cg.fresh

(***************************************************************************)
(* The legacy CodeGenerator (generate(program, importedModules)).  The     *)
(* object is a record as above; output holds one string for each write,    *)
(* emitted is the history of the forward declarations and function bodies  *)
(* written so far: what, the C name, the position in output where it       *)
(* starts and, for a body, where it ends and the function's declaration.   *)
(***************************************************************************)
\* Length of the template of a format-string expression, in characters.
MaxFormatLen == 4

\* Number of arguments of a format-string expression.
MaxFormatArgs == 2

LiteralExpression(value, literalType) ==
    [kind |-> "LiteralExpression", value |-> value, literalType |-> literalType]

IdentifierExpression(name) == [kind |-> "IdentifierExpression", name |-> name]

BinaryExpression(left, op, right) ==
    [kind |-> "BinaryExpression", left |-> left, op |-> op, right |-> right]

UnaryExpression(op, operand) ==
    [kind |-> "UnaryExpression", op |-> op, operand |-> operand]

CallExpression(callee, arguments) ==
    [kind |-> "CallExpression", callee |-> callee, arguments |-> arguments]

MemberExpression(object, property) ==
    [kind |-> "MemberExpression", object |-> object, property |-> property]

ArrayExpression(elements) == [kind |-> "ArrayExpression", elements |-> elements]

FormatStringExpression(format, arguments) ==
    [kind |-> "FormatStringExpression", format |-> format, arguments |-> arguments]

LegacyExpressionStatement(expr) ==
    [kind |-> "ExpressionStatement", expression |-> expr]

LegacyVariableDeclaration(name, type, initializer) ==
    [kind |-> "VariableDeclaration", name |-> name, type |-> type,
     initializer |-> initializer]

BlockStatement(statements) == [kind |-> "BlockStatement", statements |-> statements]

LegacyIfStatement(condition, thenBranch, elseBranch) ==
    [kind |-> "IfStatement", condition |-> condition, thenBranch |-> thenBranch,
     elseBranch |-> elseBranch]

LegacyWhileStatement(condition, body) ==
    [kind |-> "WhileStatement", condition |-> condition, body |-> body]

LegacyReturnStatement(value) == [kind |-> "ReturnStatement", value |-> value]

LegacyFunctionDeclaration(name, parameters, returnType, body) ==
    [kind |-> "FunctionDeclaration", name |-> name, parameters |-> parameters,
     returnType |-> returnType, body |-> body]

IntType == [kind |-> "INTEGER_TYPE"]

ReferenceType(elementType) == [kind |-> "REFERENCE_TYPE", elementType |-> elementType]

Parameter(name, type) == [name |-> name, type |-> type]

\* Program: package is the PackageDeclaration's name, "none" without one
LegacyProgram(package, statements) ==
    [kind |-> "Program", package |-> package, statements |-> statements]

RECURSIVE getCTypeName(_)

\* CodeGenerator::getCTypeName
getCTypeName(type) ==
    CASE type.kind = "VOID_TYPE" -> "void"
      [] type.kind = "INTEGER_TYPE" -> "int"
      [] type.kind = "FLOAT_TYPE" -> "float"
      [] type.kind = "STRING_TYPE" -> "char*"
      [] type.kind = "BOOLEAN_TYPE" -> "bool"
      [] type.kind = "ARRAY_TYPE" -> getCTypeName(type.elementType) \o "*"
      [] type.kind = "REFERENCE_TYPE" -> getCTypeName(type.elementType) \o "*"
      [] OTHER -> "void"

\* CodeGenerator::CodeGenerator (legacy)
NewLegacyGenerator ==
    [output |-> <<>>, indentLevel |-> 0, levels |-> <<0>>, modules |-> <<>>,
     currentProgram |-> Nullptr, referenceParameters |-> {}, emitted |-> <<>>]

\* CodeGenerator::write
write(g, text) == Out(g, <<text>>)

\* CodeGenerator::writeLine
writeLine(g, line) ==
    IF line # "" THEN Out(indent(g), <<line, "\n">>) ELSE Out(g, <<"\n">>)

\* std::string::find(part) != npos on the identifier names of the model
NameContains(name, part) ==
    name \in (CASE part = "name" -> {"name", "username"}
                [] part = "str" -> {"str", "strA"}
                [] part = "text" -> {"text"}
                [] OTHER -> {})

\* CodeGenerator::isStringExpression
isStringExpression(expr) ==
    CASE expr.kind = "LiteralExpression" ->
            expr.literalType = "STRING" \/ expr.literalType = "BOOLEAN"
      [] expr.kind = "IdentifierExpression" ->
            \/ expr.name \in {"business", "location", "animal", "verb"}
            \/ NameContains(expr.name, "name")
            \/ NameContains(expr.name, "str")
            \/ NameContains(expr.name, "text")
      [] expr.kind = "CallExpression" ->
            expr.callee.kind = "MemberExpression" /\ expr.callee.property = "input"
      [] OTHER -> FALSE

\* std::string::npos
Npos == -1

\* result.find("%s", pos): positions count from 0
FindPlaceholder(result, pos) ==
    IF \E i \in pos..(Len(result) - 2) : result[i + 1] = "%" /\ result[i + 2] = "s"
    THEN CHOOSE i \in pos..(Len(result) - 2) :
            /\ result[i + 1] = "%" /\ result[i + 2] = "s"
            /\ \A j \in pos..(i - 1) : ~(result[j + 1] = "%" /\ result[j + 2] = "s")
    ELSE Npos

\* generateFormatString when every argument is given the string specifier
FormatSpecAlwaysString(arg) == <<"%", "s">>

\* generateFormatString: the format specifier chosen for an argument
FormatSpec(arg) ==
    IF arg.kind = "LiteralExpression"
    THEN IF arg.literalType = "STRING" \/ arg.literalType = "BOOLEAN"
         THEN <<"%", "s">> ELSE <<"%", "g">>
    ELSE IF isStringExpression(arg) THEN <<"%", "s">> ELSE <<"%", "g">>

\* result.replace(found, 2, formatSpec)
ReplaceAt(result, found, formatSpec) ==
    SubSeq(result, 1, found) \o formatSpec \o SubSeq(result, found + 3, Len(result))

RECURSIVE FormatLoop(_, _, _, _)

\* generateFormatString: the loop over the arguments; i counts from 0
FormatLoop(result, args, i, pos) ==
    IF i < Len(args) /\ pos < Len(result)
    THEN IF FindPlaceholder(result, pos) # Npos
         THEN FormatLoop(ReplaceAt(result, FindPlaceholder(result, pos),
                                   FormatSpec(args[i + 1])),
                         args, i + 1,
                         FindPlaceholder(result, pos) + Len(FormatSpec(args[i + 1])))
         ELSE FormatLoop(result, args, i + 1, pos)
    ELSE result

RECURSIVE Str(_)

\* The std::string made of a sequence of characters.
Str(chars) == IF chars = <<>> THEN "" ELSE Head(chars) \o Str(Tail(chars))

RECURSIVE LegacyGenerateExpression(_, _), LegacyArguments(_, _, _, _)
RECURSIVE FormatArguments(_, _, _)

\* generateExpression, call branch: the callee is one of the functions the
\* generator takes to have reference parameters
hasReferenceParams(callee) ==
    /\ callee.kind = "IdentifierExpression"
    /\ (callee.name = "testRef" \/ callee.name = "fromFingers")

\* generateExpression: the argument loops of the call branch and of the
\* array branch; addressOf is hasReferenceParams
LegacyArguments(g, arguments, i, addressOf) ==
    IF i > Len(arguments) THEN g
    ELSE AndThen(
             IF addressOf /\ arguments[i].kind = "IdentifierExpression"
             THEN write(IF i > 1 THEN write(g, ", ") ELSE g,
                        "&" \o arguments[i].name)
             ELSE LegacyGenerateExpression(IF i > 1 THEN write(g, ", ") ELSE g,
                                           arguments[i]),
             LAMBDA r : LegacyArguments(r, arguments, i + 1, addressOf))

\* generateFormatString: an argument is wrapped in a cast to double
NeedsCast(arg) ==
    IF arg.kind = "LiteralExpression"
    THEN arg.literalType = "INTEGER" \/ arg.literalType = "FLOAT"
    ELSE ~isStringExpression(arg)

\* generateFormatString: the loop that writes the arguments
FormatArguments(g, args, i) ==
    IF i > Len(args) THEN g
    ELSE AndThen(
             IF NeedsCast(args[i])
             THEN write(LegacyGenerateExpression(write(write(g, ", "), "(double)("),
                                                 args[i]),
                        ")")
             ELSE LegacyGenerateExpression(write(g, ", "), args[i]),
             LAMBDA r : FormatArguments(r, args, i + 1))

\* CodeGenerator::generateFormatString
generateFormatString(g, format, args) ==
    write(FormatArguments(
              write(g, "thor_format_string(\""
                       \o Str(FormatLoop(format, args, 0, 0)) \o "\""),
              args, 1),
          ")")

\* generateExpression, call branch with a member callee: what is written
\* for the callee
MemberCallee(g, member) ==
    IF member.object.kind = "IdentifierExpression"
    THEN IF member.object.name = "std"
         THEN IF member.property = "println" THEN write(g, "thor_println(")
              ELSE IF member.property = "input" THEN write(g, "thor_input(")
              ELSE g
         ELSE write(g, member.object.name \o "_" \o member.property \o "(")
    ELSE g

\* generateExpression, binary branch
LegacyBinary(g, binary) ==
    IF binary.op = "=="
    THEN write(LegacyGenerateExpression(
                   write(LegacyGenerateExpression(write(g, "thor_string_equals("),
                                                  binary.left),
                         ", "),
                   binary.right),
               ")")
    ELSE IF /\ binary.op = "="
            /\ binary.left.kind = "IdentifierExpression"
            /\ binary.left.name \in g.referenceParameters
    THEN write(LegacyGenerateExpression(
                   write(g, "(*" \o binary.left.name \o " = "), binary.right),
               ")")
    ELSE write(LegacyGenerateExpression(
                   write(LegacyGenerateExpression(write(g, "("), binary.left),
                         " " \o binary.op \o " "),
                   binary.right),
               ")")

\* CodeGenerator::generateExpression (legacy)
LegacyGenerateExpression(g0, expr) ==
    AndThen(g0, LAMBDA g :
    CASE expr.kind = "LiteralExpression" ->
            IF expr.literalType = "STRING"
            THEN write(g, "\"" \o expr.value \o "\"")
            ELSE IF expr.literalType = "BOOLEAN"
            THEN write(g, IF expr.value = "true" THEN "true" ELSE "false")
            ELSE write(g, expr.value)
      [] expr.kind = "IdentifierExpression" ->
            IF expr.name \in g.referenceParameters
            THEN write(g, "(*" \o expr.name \o ")")
            ELSE write(g, expr.name)
      [] expr.kind = "BinaryExpression" -> LegacyBinary(g, expr)
      [] expr.kind = "UnaryExpression" ->
            write(LegacyGenerateExpression(write(g, "(" \o expr.op), expr.operand), ")")
      [] expr.kind = "CallExpression" ->
            IF expr.callee.kind = "MemberExpression"
            THEN write(LegacyArguments(MemberCallee(g, expr.callee),
                                       expr.arguments, 1, FALSE),
                       ")")
            ELSE write(LegacyArguments(
                           write(LegacyGenerateExpression(g, expr.callee), "("),
                           expr.arguments, 1, hasReferenceParams(expr.callee)),
                       ")")
      [] expr.kind = "MemberExpression" ->
            write(LegacyGenerateExpression(g, expr.object), "." \o expr.property)
      [] expr.kind = "FormatStringExpression" ->
            generateFormatString(g, expr.format, expr.arguments)
      [] expr.kind = "ArrayExpression" ->
            write(LegacyArguments(write(g, "{"), expr.elements, 1, FALSE), "}")
      [] OTHER -> g)

RECURSIVE LegacyGenerateStatement(_, _), LegacyStatements(_, _, _)

\* the loops of generateStatement (block branch) and of generateFunction
\* over the statements of a body
LegacyStatements(g, statements, i) ==
    IF i > Len(statements) THEN g
    ELSE AndThen(LegacyGenerateStatement(g, statements[i]),
                 LAMBDA r : LegacyStatements(r, statements, i + 1))

RECURSIVE TypedParameters(_, _, _)

\* the parameter loops of generateProgram and generateFunction
TypedParameters(g, parameters, i) ==
    IF i > Len(parameters) THEN g
    ELSE TypedParameters(
             write(write(IF i > 1 THEN write(g, ", ") ELSE g,
                         getCTypeName(parameters[i].type)),
                   " " \o parameters[i].name),
             parameters, i + 1)

\* the C name of a function of the program: prefixed with the package name
\* unless the program has no package or the package is main
CName(prog, name) ==
    IF prog.kind # "nullptr" /\ prog.package # "none" /\ prog.package # "main"
    THEN prog.package \o "_" \o name
    ELSE name

\* The names of the parameters of Reference type.
ReferenceNames(parameters) ==
    {parameters[i].name : i \in {j \in DOMAIN parameters :
                                    parameters[j].type.kind = "REFERENCE_TYPE"}}

\* generateFunction: referenceParameters.clear() and the loop that inserts
\* the names of the parameters of Reference type
SetReferenceParameters(g, func) ==
    [g EXCEPT !.referenceParameters = ReferenceNames(func.parameters)]

\* CodeGenerator::generateFunction
generateFunction(g0, func) ==
    IF func.body.kind = "nullptr" THEN g0
    ELSE AndThen(SetReferenceParameters(g0, func), LAMBDA g :
         AndThen(writeLine(
                     TypedParameters(
                         write(write(write(g, getCTypeName(func.returnType)), " "),
                               CName(g.currentProgram, func.name) \o "("),
                         func.parameters, 1),
                     ") {"),
                 LAMBDA header :
         AndThen(LegacyStatements(IndentMore(header), func.body.statements, 1),
                 LAMBDA done :
         writeLine(
             [IndentLess(done) EXCEPT !.emitted =
                 Append(@, [what |-> "body",
                            name |-> CName(g.currentProgram, func.name),
                            at |-> Len(g.output) + 1, end |-> Len(done.output),
                            func |-> func])],
             "}"))))

\* the body of an if, of an else and of a while: indentLevel++,
\* generateStatement, indentLevel--
Indented(g, stmt) == IndentLess(LegacyGenerateStatement(IndentMore(g), stmt))

\* CodeGenerator::generateStatement (legacy)
LegacyGenerateStatement(g, stmt) ==
    CASE stmt.kind = "ExpressionStatement" ->
            writeLine(LegacyGenerateExpression(indent(g), stmt.expression), ";")
      [] stmt.kind = "VariableDeclaration" ->
            IF stmt.initializer.kind # "nullptr"
            THEN writeLine(
                     LegacyGenerateExpression(
                         write(write(write(indent(g), getCTypeName(stmt.type)),
                                     " " \o stmt.name),
                               " = "),
                         stmt.initializer),
                     ";")
            ELSE writeLine(write(write(indent(g), getCTypeName(stmt.type)),
                                 " " \o stmt.name),
                           ";")
      [] stmt.kind = "BlockStatement" ->
            writeLine(IndentLess(LegacyStatements(IndentMore(writeLine(g, "{")),
                                                  stmt.statements, 1)),
                      "}")
      [] stmt.kind = "IfStatement" ->
            IF stmt.elseBranch.kind # "nullptr"
            THEN writeLine(
                     Indented(
                         writeLine(
                             Indented(
                                 writeLine(
                                     LegacyGenerateExpression(
                                         write(indent(g), "if ("), stmt.condition),
                                     ") {"),
                                 stmt.thenBranch),
                             "} else {"),
                         stmt.elseBranch),
                     "}")
            ELSE writeLine(
                     Indented(
                         writeLine(
                             LegacyGenerateExpression(
                                 write(indent(g), "if ("), stmt.condition),
                             ") {"),
                         stmt.thenBranch),
                     "}")
      [] stmt.kind = "WhileStatement" ->
            writeLine(
                Indented(
                    writeLine(
                        LegacyGenerateExpression(
                            write(indent(g), "while ("), stmt.condition),
                        ") {"),
                    stmt.body),
                "}")
      [] stmt.kind = "ReturnStatement" ->
            IF stmt.value.kind # "nullptr"
            THEN writeLine(
                     LegacyGenerateExpression(write(write(indent(g), "return"), " "),
                                              stmt.value),
                     ";")
            ELSE writeLine(write(indent(g), "return"), ";")
      [] stmt.kind = "FunctionDeclaration" -> generateFunction(g, stmt)
      [] OTHER -> g

RECURSIVE WriteLines(_, _, _)

\* writeLine for each of the lines, one after the other
WriteLines(g, lines, i) ==
    IF i > Len(lines) THEN g
    ELSE AndThen(writeLine(g, lines[i]), LAMBDA r : WriteLines(r, lines, i + 1))

\* CodeGenerator::generateIncludes (legacy)
LegacyGenerateIncludes(g) ==
    WriteLines(g, <<"#include <stdio.h>", "#include <stdlib.h>",
                    "#include <string.h>", "#include <stdbool.h>",
                    "#include <stdarg.h>", "">>, 1)

\* generateBuiltinFunctions: one helper function whose body is one level
\* deeper than its first and last line
HelperFunction(g, first, bodyLines) ==
    WriteLines(IndentLess(WriteLines(IndentMore(writeLine(g, first)), bodyLines, 1)),
               <<"}", "">>, 1)

\* CodeGenerator::generateBuiltinFunctions (legacy): thor_input, whose body
\* holds an if block, then thor_println, thor_string_equals, thor_format_string
LegacyGenerateBuiltinFunctions(g) ==
    HelperFunction(
      HelperFunction(
        HelperFunction(
          WriteLines(
            IndentLess(
              WriteLines(
                IndentLess(
                  WriteLines(
                    IndentMore(
                      WriteLines(
                        IndentMore(writeLine(g, "char* thor_input(const char* prompt) {")),
                        <<"printf(\"%s\", prompt);", "char* buffer = malloc(1024);",
                          "fgets(buffer, 1024, stdin);", "// Remove newline",
                          "int len = strlen(buffer);",
                          "if (len > 0 && buffer[len-1] == '\\n') {">>, 1)),
                    <<"buffer[len-1] = '\\0';">>, 1)),
                <<"}", "return buffer;">>, 1)),
            <<"}", "">>, 1),
          "void thor_println(const char* str) {", <<"printf(\"%s\\n\", str);">>),
        "bool thor_string_equals(const char* a, const char* b) {",
        <<"return strcmp(a, b) == 0;">>),
      "char* thor_format_string(const char* format, ...) {",
      <<"va_list args;", "va_start(args, format);", "char* buffer = malloc(1024);",
        "vsnprintf(buffer, 1024, format, args);", "va_end(args);",
        "return buffer;">>)

RECURSIVE ForwardDeclarations(_, _, _, _)

\* generateProgram: the loop that writes a forward declaration for every
\* function that has a body
ForwardDeclarations(g0, prog, statements, i) ==
    IF i > Len(statements) THEN g0
    ELSE IF statements[i].kind = "FunctionDeclaration"
            /\ statements[i].body.kind # "nullptr"
    THEN AndThen(g0, LAMBDA g :
         AndThen(writeLine(
                     TypedParameters(
                         write(IF prog.package # "none" /\ prog.package # "main"
                               THEN write(write(write(g,
                                              getCTypeName(statements[i].returnType)),
                                                " "),
                                          prog.package \o "_")
                               ELSE write(write(g,
                                              getCTypeName(statements[i].returnType)),
                                          " "),
                               statements[i].name \o "("),
                         statements[i].parameters, 1),
                     ");"),
                 LAMBDA r :
         ForwardDeclarations(
             [r EXCEPT !.emitted =
                 Append(@, [what |-> "forward",
                            name |-> CName(prog, statements[i].name),
                            at |-> Len(g.output) + 1, end |-> Len(r.output),
                            func |-> statements[i]])],
             prog, statements, i + 1)))
    ELSE ForwardDeclarations(g0, prog, statements, i + 1)

RECURSIVE ProgramStatements(_, _, _)

\* generateProgram: the loop that writes each statement and an empty line
ProgramStatements(g, statements, i) ==
    IF i > Len(statements) THEN g
    ELSE AndThen(writeLine(LegacyGenerateStatement(g, statements[i]), ""),
                 LAMBDA r : ProgramStatements(r, statements, i + 1))

\* CodeGenerator::generateProgram
generateProgram(g, prog) ==
    AndThen(ForwardDeclarations([g EXCEPT !.currentProgram = prog], prog,
                                prog.statements, 1),
            LAMBDA r :
                ProgramStatements(IF prog.statements # <<>> THEN writeLine(r, "") ELSE r,
                                  prog.statements, 1))

RECURSIVE GenerateModules(_, _, _)

\* generate: the loop over the imported modules, in the order in which the
\* unordered map yields them
GenerateModules(g, modules, i) ==
    IF i > Len(modules) THEN g
    ELSE AndThen(writeLine(generateProgram(g, modules[i]), ""),
                 LAMBDA r : GenerateModules(r, modules, i + 1))

\* CodeGenerator::generate (legacy); what it returns is the output of the
\* object it yields
LegacyGenerate(g, prog, importedModules) ==
    AndThen(GenerateModules(
                LegacyGenerateBuiltinFunctions(
                    LegacyGenerateIncludes(
                        [g EXCEPT !.output = <<>>, !.indentLevel = 0,
                                  !.levels = <<0>>, !.emitted = <<>>,
                                  !.modules = importedModules])),
                importedModules, 1),
            LAMBDA r : generateProgram(r, prog))

(***************************************************************************)
(* Programs given to the legacy generator.  x and y are variables, p is    *)
(* the Reference parameter of f, name is a variable whose name makes the   *)
(* generator take it for a string.                                         *)
(***************************************************************************)
Var(name) == IdentifierExpression(name)

IntLiteral(value) == LiteralExpression(value, "INTEGER")

StringLiteral(value) == LiteralExpression(value, "STRING")

CallNamed(name, arguments) == CallExpression(Var(name), arguments)

\* The uses of the parameters p (Reference) and x (int) in the body of f:
\* as assignment target, as value read, as call argument, at depth.
UsesOfParameters ==
    {LegacyExpressionStatement(BinaryExpression(Var("p"), "=", IntLiteral("1"))),
     LegacyExpressionStatement(BinaryExpression(Var("x"), "=", Var("p"))),
     LegacyReturnStatement(BinaryExpression(Var("p"), "+", Var("x"))),
     LegacyExpressionStatement(CallNamed("g", <<Var("p"), Var("x")>>)),
     LegacyExpressionStatement(CallNamed("testRef", <<Var("p")>>)),
     LegacyIfStatement(BinaryExpression(Var("p"), "==", Var("x")),
         BlockStatement(<<LegacyExpressionStatement(
                              BinaryExpression(Var("p"), "=", Var("x")))>>),
         LegacyReturnStatement(UnaryExpression("-", Var("p")))),
     LegacyWhileStatement(Var("x"),
         LegacyVariableDeclaration("y", IntType, Var("p")))}

FunctionsWithReferenceParameter ==
    {LegacyFunctionDeclaration("f",
         <<Parameter("p", ReferenceType(IntType)), Parameter("x", IntType)>>,
         IntType, BlockStatement(<<use>>)) : use \in UsesOfParameters}

\* Functions declared with a Reference parameter in the first or in the
\* second position, a function without a body and a main function.
OtherFunctions ==
    {LegacyFunctionDeclaration("swap",
         <<Parameter("a", ReferenceType(IntType)), Parameter("b", IntType)>>,
         [kind |-> "VOID_TYPE"],
         BlockStatement(<<LegacyExpressionStatement(
                              BinaryExpression(Var("a"), "=", Var("b")))>>)),
     LegacyFunctionDeclaration("testRef",
         <<Parameter("a", IntType), Parameter("b", ReferenceType(IntType))>>,
         [kind |-> "VOID_TYPE"],
         BlockStatement(<<LegacyExpressionStatement(
                              BinaryExpression(Var("b"), "=", Var("a")))>>)),
     LegacyFunctionDeclaration("ext", <<Parameter("x", IntType)>>, IntType, Nullptr),
     LegacyFunctionDeclaration("main", <<>>, IntType,
         BlockStatement(<<LegacyExpressionStatement(
                              CallNamed("swap", <<Var("x"), Var("y")>>)),
                          LegacyReturnStatement(IntLiteral("0"))>>))}

\* Statements outside functions.
TopLevelStatements ==
    {LegacyExpressionStatement(CallNamed("swap", <<Var("x"), Var("y")>>)),
     LegacyExpressionStatement(CallNamed("testRef", <<Var("x"), Var("y")>>)),
     LegacyExpressionStatement(
         CallExpression(MemberExpression(Var("math"), "add"),
                        <<Var("x"), IntLiteral("1")>>)),
     LegacyExpressionStatement(
         CallExpression(MemberExpression(Var("std"), "println"),
                        <<StringLiteral("s")>>)),
     LegacyExpressionStatement(
         BinaryExpression(StringLiteral("s"), "==", Var("name"))),
     LegacyExpressionStatement(BinaryExpression(Var("x"), "==", IntLiteral("1"))),
     LegacyExpressionStatement(BinaryExpression(Var("y"), "+", Var("p"))),
     LegacyVariableDeclaration("y", [kind |-> "ARRAY_TYPE", elementType |-> IntType],
         ArrayExpression(<<IntLiteral("1"), IntLiteral("2")>>)),
     BlockStatement(<<LegacyVariableDeclaration("x", IntType, Nullptr)>>),
     LegacyIfStatement(Var("x"),
         LegacyExpressionStatement(CallNamed("swap", <<Var("x"), Var("y")>>)),
         Nullptr),
     LegacyWhileStatement(Var("x"),
         BlockStatement(<<LegacyIfStatement(Var("y"),
                              BlockStatement(<<LegacyReturnStatement(Nullptr)>>),
                              Nullptr)>>))}

LegacyStatementPool ==
    FunctionsWithReferenceParameter \cup OtherFunctions \cup TopLevelStatements

\* Two modules, each defining add and a function that calls add.
MathModule ==
    LegacyProgram("math",
        <<LegacyFunctionDeclaration("add",
              <<Parameter("a", IntType), Parameter("b", IntType)>>, IntType,
              BlockStatement(<<LegacyReturnStatement(
                                   BinaryExpression(Var("a"), "+", Var("b")))>>)),
          LegacyFunctionDeclaration("twice", <<Parameter("x", IntType)>>, IntType,
              BlockStatement(<<LegacyReturnStatement(
                                   CallNamed("add", <<Var("x"), Var("x")>>))>>))>>)

UtilModule ==
    LegacyProgram("util",
        <<LegacyFunctionDeclaration("bump", <<Parameter("x", IntType)>>, IntType,
              BlockStatement(<<LegacyReturnStatement(
                                   CallNamed("add", <<Var("x"), IntLiteral("1")>>))>>)),
          LegacyFunctionDeclaration("add",
              <<Parameter("a", IntType), Parameter("b", IntType)>>, IntType,
              BlockStatement(<<LegacyReturnStatement(
                                   BinaryExpression(Var("b"), "+", Var("a")))>>))>>)

\* importedModules, in each order in which the unordered map may yield them
ModuleLists ==
    {<<>>, <<MathModule>>, <<UtilModule>>, <<MathModule, UtilModule>>,
     <<UtilModule, MathModule>>}

\* Main programs with functions and statements, with imported modules.
FunctionInputs ==
    {[prog |-> LegacyProgram("main", statements), modules |-> modules] :
        statements \in UNION {[1..n -> LegacyStatementPool] : n \in 0..MaxGenStmts},
        modules \in ModuleLists}

FormatChars == {"%", "s", "a"}

FormatArgumentPool == {IntLiteral("5"), StringLiteral("a"),
                     LiteralExpression("true", "BOOLEAN"), Var("x"), Var("name")}

\* Main programs that print one format-string expression.
FormatInputs ==
    {[prog |-> LegacyProgram("none",
                  <<LegacyExpressionStatement(
                        CallExpression(MemberExpression(Var("std"), "println"),
                                       <<FormatStringExpression(format, args)>>))>>),
      modules |-> <<>>] :
        format \in UNION {[1..n -> FormatChars] : n \in 0..MaxFormatLen},
        args \in UNION {[1..n -> FormatArgumentPool] : n \in 0..MaxFormatArgs}}

LegacyInputs == FunctionInputs \cup FormatInputs

InitLegacy ==
    /\ ParserAndDriverIdle
    /\ cg = [stage |-> "none"]
    /\ \E input \in LegacyInputs :
          lg = [stage |-> "constructed", input |-> input.prog,
                modules |-> input.modules, object |-> NewLegacyGenerator,
                returned |-> <<>>]

\* generator.generate(program, importedModules)
GenerateLegacy ==
    /\ lg.stage = "constructed"
    /\ lg' = [lg EXCEPT !.stage = "generated",
                        !.object = LegacyGenerate(@, lg.input, lg.modules),
                        !.returned = LegacyGenerate(lg.object, lg.input,
                                                    lg.modules).output]
    /\ UNCHANGED <<importVars, lexVars, parseVars, driver, cg, frontVars>>

NextLegacy == GenerateLegacy

SpecLegacy == InitLegacy /\ [][NextLegacy]_vars

\* The names of the variables and parameters of the programs.
IdentifierNames == {"x", "y", "p", "a", "b", "name"}

\* The function bodies and the forward declarations written, in order.
Bodies == {k \in DOMAIN lg.object.emitted : lg.object.emitted[k].what = "body"}

Forwards == {k \in DOMAIN lg.object.emitted : lg.object.emitted[k].what = "forward"}

\* C12 (as claimed): in the text generateFunction writes for a function,
\* no parameter of Reference type is written bare or behind '&' (every use
\* of it is a dereference), and no other identifier is written dereferenced.
C12_ReferenceUsesAreDereferenced ==
    lg.stage = "generated" =>
        \A k \in Bodies :
            \A i \in lg.object.emitted[k].at .. lg.object.emitted[k].end :
                /\ \A q \in ReferenceNames(lg.object.emitted[k].func.parameters) :
                      lg.returned[i] \notin {q, "&" \o q}
                /\ \A v \in IdentifierNames
                            \ ReferenceNames(lg.object.emitted[k].func.parameters) :
                      lg.returned[i] \notin {"(*" \o v \o ")", "(*" \o v \o " = "}

\* The functions declared in the main program.
DeclaredFunctions ==
    {lg.input.statements[k] : k \in {j \in DOMAIN lg.input.statements :
                                lg.input.statements[j].kind = "FunctionDeclaration"}}

\* The number of arguments of the call written at position i, each argument
\* being one string.
ArgumentCount(text, i) ==
    ((CHOOSE j \in (i + 2)..Len(text) :
         /\ text[j] = ")"
         /\ \A m \in (i + 2)..(j - 1) : text[m] # ")") - i - 1) \div 2

\* C13 (as claimed): in every written call of a function that the program
\* declares, a variable passed as argument is written behind '&' exactly in
\* the positions whose declared parameter type is Reference.
C13_AddressOfFollowsDeclaration ==
    lg.stage = "generated" =>
        \A func \in DeclaredFunctions :
            \A i \in CallsOf(lg.returned, func.name) :
                \A k \in 1..Len(func.parameters) :
                    k <= ArgumentCount(lg.returned, i) =>
                        (lg.returned[i + 2 * k] \in {"&" \o v : v \in IdentifierNames}
                            <=> func.parameters[k].type.kind = "REFERENCE_TYPE")

\* The names of the functions of the programs, and the strings a call may
\* be written with: a name, bare or behind a package prefix.
FunctionNames == {"add", "twice", "bump", "swap", "testRef", "f", "g", "main", "ext"}

CallableNames ==
    FunctionNames \cup {pkg \o "_" \o name : pkg \in {"math", "util"},
                                              name \in FunctionNames}

\* The C names of the functions a module defines.
DefinedBy(module) ==
    {CName(module, module.statements[k].name) : k \in DOMAIN module.statements}

\* The bodies written for the functions of a module.
BodiesOf(module) == {k \in Bodies : lg.object.emitted[k].name \in DefinedBy(module)}

\* C14 (as claimed): with two imported modules that both define add, the
\* output holds one definition of math_add and one of util_add, and every
\* call written inside a function of a module names a function that this
\* module defines, by its prefixed name.
C14_ModuleCallsUsePrefixedNames ==
    (lg.stage = "generated" /\ Len(lg.modules) = 2) =>
        /\ \A m \in DOMAIN lg.modules :
              Cardinality({k \in Bodies : lg.object.emitted[k].name =
                                              lg.modules[m].package \o "_add"}) = 1
        /\ \A m \in DOMAIN lg.modules :
              \A k \in BodiesOf(lg.modules[m]) :
                  \A i \in lg.object.emitted[k].at .. lg.object.emitted[k].end :
                      (lg.returned[i] \in CallableNames /\ lg.returned[i + 1] = "(")
                          => lg.returned[i] \in DefinedBy(lg.modules[m])

\* C15 (as claimed): in the returned text every function that has a body,
\* of the main program and of every imported module, has a forward
\* declaration, and that declaration is written before the first function
\* body of any module.
C15_ForwardDeclarationsPrecedeBodies ==
    lg.stage = "generated" =>
        \A k \in Bodies :
            \E d \in Forwards :
                /\ lg.object.emitted[d].name = lg.object.emitted[k].name
                /\ \A b \in Bodies :
                      lg.object.emitted[d].end < lg.object.emitted[b].at

\* The format-string expression of an input that prints one.
IsFormatInput ==
    /\ lg.input.package = "none"
    /\ Len(lg.input.statements) = 1
    /\ lg.input.statements[1].kind = "ExpressionStatement"
    /\ lg.input.statements[1].expression.kind = "CallExpression"
    /\ Len(lg.input.statements[1].expression.arguments) = 1
    /\ lg.input.statements[1].expression.arguments[1].kind = "FormatStringExpression"

FormatExpression == lg.input.statements[1].expression.arguments[1]

RECURSIVE Placeholders(_)

\* The number of "%s" placeholders of a format, counted left to right.
Placeholders(chars) ==
    IF Len(chars) < 2 THEN 0
    ELSE IF chars[1] = "%" /\ chars[2] = "s"
         THEN 1 + Placeholders(SubSeq(chars, 3, Len(chars)))
         ELSE Placeholders(Tail(chars))

RECURSIVE Specified(_, _, _)

\* The template the claim describes: the i-th placeholder, left to right,
\* replaced by the string specifier when the i-th argument is string-like
\* and by the numeric specifier otherwise.
Specified(chars, args, i) ==
    IF Len(chars) < 2 THEN chars
    ELSE IF chars[1] = "%" /\ chars[2] = "s"
         THEN (IF isStringExpression(args[i]) THEN <<"%", "s">> ELSE <<"%", "g">>)
                  \o Specified(SubSeq(chars, 3, Len(chars)), args, i + 1)
         ELSE <<chars[1]>> \o Specified(Tail(chars), args, i)

RECURSIVE PassedArguments(_, _)

\* The arguments the claim describes: in their order, the numeric ones
\* wrapped in a cast to double.
PassedArguments(args, i) ==
    IF i > Len(args) THEN <<>>
    ELSE <<", ">>
             \o (IF isStringExpression(args[i])
                 THEN LegacyGenerateExpression(NewLegacyGenerator, args[i]).output
                 ELSE <<"(double)(">>
                          \o LegacyGenerateExpression(NewLegacyGenerator,
                                                      args[i]).output
                          \o <<")">>)
             \o PassedArguments(args, i + 1)

\* The call the claim describes for a format-string expression.
ExpectedFormatCall(expr) ==
    <<"thor_format_string(\"" \o Str(Specified(expr.format, expr.arguments, 1)) \o "\"">>
        \o PassedArguments(expr.arguments, 1) \o <<")">>

\* text holds part at position i
HoldsAt(text, part, i) ==
    /\ i + Len(part) - 1 <= Len(text)
    /\ SubSeq(text, i, i + Len(part) - 1) = part

FormatCallOpenings ==
    {"thor_format_string(\"" \o Str(template) \o "\"" :
        template \in UNION {[1..n -> FormatChars \cup {"g"}] : n \in 0..MaxFormatLen}}

\* C17 (as claimed): for a format-string expression whose number of "%s"
\* placeholders differs from its number of arguments, no call of
\* thor_format_string is emitted.
C17_MismatchEmitsNoFormatCall ==
    (/\ lg.stage = "generated"
     /\ IsFormatInput
     /\ Placeholders(FormatExpression.format) # Len(FormatExpression.arguments)) =>
        \A i \in DOMAIN lg.returned : lg.returned[i] \notin FormatCallOpenings

\* Both code generators, each on its own inputs.
InitGenerators == InitCodeGen \/ InitLegacy

NextGenerators == NextCodeGen \/ NextLegacy

SpecGenerators == InitGenerators /\ [][NextGenerators]_vars

\* The text of a string operand in the output of the legacy generator.
LegacyStringOperands == {"\"s\"", "\"a\"", "name"}

\* C18 (as claimed): no generator writes a raw C "==" with a string
\* operand; the legacy generator writes the comparison of a string literal
\* with a string variable as a call of thor_string_equals on the two
\* operands.
C18_StringEqualityUsesHelper ==
    /\ cg.stage \in {"generated", "generated again"} =>
          \A i \in DOMAIN cg.returned :
              cg.returned[i] = "==" =>
                  cg.returned[i - 2] # "\"" /\ cg.returned[i + 2] # "\""
    /\ lg.stage = "generated" =>
          /\ \A i \in DOMAIN lg.returned :
                lg.returned[i] = " == " =>
                    /\ lg.returned[i - 1] \notin LegacyStringOperands
                    /\ lg.returned[i + 1] \notin LegacyStringOperands
          /\ \A k \in DOMAIN lg.input.statements :
                lg.input.statements[k] =
                    LegacyExpressionStatement(
                        BinaryExpression(StringLiteral("s"), "==", Var("name")))
                => \E i \in DOMAIN lg.returned :
                       HoldsAt(lg.returned,
                               <<"thor_string_equals(", "\"s\"", ", ", "name", ")">>, i)

\* The legacy generator alone satisfies the statement of C18.
LegacyStringEqualityUsesHelper ==
    cg.stage = "none" => C18_StringEqualityUsesHelper

\* The pieces of the output of Thor::CodeGenerator that open a brace and
\* those that close one.
OpeningPieces == {"{\n", PrintlnHelper[2], PrintHelper[2]}

ClosingPieces == {"}", "}\n\n"}

\* The same for the legacy generator, whose "} else {" does both.
LegacyOpeningPieces ==
    {"{", ") {", "} else {", "char* thor_input(const char* prompt) {",
     "if (len > 0 && buffer[len-1] == '\\n') {",
     "void thor_println(const char* str) {",
     "bool thor_string_equals(const char* a, const char* b) {",
     "char* thor_format_string(const char* format, ...) {"}

LegacyClosingPieces == {"}", "} else {"}

\* The number of pieces among the first i of the text that are in the set.
Written(text, pieces, i) == Cardinality({j \in 1..i : text[j] \in pieces})

\* Every closing brace closes a brace that is open, and no brace is left
\* open at the end of the text.
BracesBalanced(text, opening, closing) ==
    /\ \A i \in DOMAIN text :
          text[i] \in closing =>
              Written(text, opening, i - 1) > Written(text, closing, i - 1)
    /\ Written(text, opening, Len(text)) = Written(text, closing, Len(text))

\* levels is the history of indentLevel during generate: it starts at 0,
\* moves by one increment or decrement at a time, is never negative and
\* ends at 0, so that the increments and the decrements match.
LevelsMirrored(levels) ==
    /\ levels[1] = 0
    /\ \A k \in DOMAIN levels : levels[k] >= 0
    /\ \A k \in 2..Len(levels) : levels[k] - levels[k - 1] \in {1, -1}
    /\ levels[Len(levels)] = 0

\* C19: in both generators, during generate the indentation level is never
\* negative, its increments are matched by decrements, it is 0 when
\* generate returns, and the braces of the returned text are balanced.
C19_IndentationMirroredAndBracesBalanced ==
    /\ cg.stage \in {"generated", "generated again"} =>
          /\ LevelsMirrored(cg.object.levels)
          /\ cg.object.indentLevel = 0
          /\ BracesBalanced(cg.returned, OpeningPieces, ClosingPieces)
    /\ lg.stage = "generated" =>
          /\ LevelsMirrored(lg.object.levels)
          /\ lg.object.indentLevel = 0
          /\ BracesBalanced(lg.returned, LegacyOpeningPieces, LegacyClosingPieces)

\* Reached by Thor::CodeGenerator: a function whose body holds a while with
\* an if inside, three levels deep.
C19_Witness ==
    /\ cg.stage \in {"generated", "generated again"}
    /\ \E k \in DOMAIN cg.object.levels : cg.object.levels[k] = 3
    /\ \E i \in DOMAIN cg.returned : cg.returned[i] = " else "
    /\ cg.object.indentLevel = 0

\* Reached by the legacy generator: an if with an else inside a function
\* and a nested block.
C19_LegacyReached ==
    /\ lg.stage = "generated"
    /\ \E k \in DOMAIN lg.object.levels : lg.object.levels[k] = 3
    /\ \E i \in DOMAIN lg.returned : lg.returned[i] = "} else {"
    /\ lg.object.indentLevel = 0

(***************************************************************************)
(* The expression grammar of the legacy Parser (parseExpression down to    *)
(* parsePrimary) over the token vector, and expressions given to both      *)
(* parsers.  pos is Parser::current; a parsing function yields Returned or, *)
(* when it throws, a record with ok = FALSE.                                *)
(***************************************************************************)
\* Number of binary operators of an expression given to the parsers.
MaxOperators == 3

\* throw std::runtime_error(message + " at line " + line + ", got '" + value + "'")
RuntimeError(message, pos) ==
    [ok |-> FALSE, pos |-> pos,
     node |-> [kind |-> "runtime_error", message |-> message,
               line |-> IF pos >= Len(tokens) THEN tokens[Len(tokens)].line
                        ELSE tokens[pos + 1].line]]

\* Parser::consume (legacy)
LegacyConsume(type, message, pos) ==
    IF check(type, pos) THEN Returned(ParserAdvance(pos), tokens[pos + 1])
    ELSE RuntimeError(message, pos)

\* parseTerm and parseFactor with the operators of the two levels exchanged
SwappedBinaryOperators ==
    << {"OR"}, {"AND"}, {"EQUAL", "NOT_EQUAL"}, {"GREATER_THAN", "LESS_THAN"},
       {"DIVIDE", "MULTIPLY", "MODULO"}, {"MINUS", "PLUS"} >>

\* The operator tokens of parseLogicalOr, parseLogicalAnd, parseEquality,
\* parseComparison, parseTerm, parseFactor, loosest first.
LegacyBinaryOperators ==
    << {"OR"}, {"AND"}, {"EQUAL", "NOT_EQUAL"}, {"GREATER_THAN", "LESS_THAN"},
       {"MINUS", "PLUS"}, {"DIVIDE", "MULTIPLY", "MODULO"} >>

RECURSIVE parseExpression(_), parseAssignment(_), LegacyLevel(_, _)
RECURSIVE LegacyLoop(_, _, _), parseUnary(_), parseCall(_), ParseCallLoop(_, _)
RECURSIVE ExpressionList(_, _), parsePrimary(_)

\* Parser::parseAssignment
parseAssignment(pos) ==
    Then(LegacyLevel(1, pos), LAMBDA expr :
    IF check("ASSIGN", expr.pos)
    THEN Then(parseAssignment(ParserAdvance(expr.pos)), LAMBDA value :
         Returned(value.pos,
                  BinaryExpression(expr.node, tokens[expr.pos + 1].value,
                                   value.node)))
    ELSE expr)

\* Parser::parseExpression
parseExpression(pos) == parseAssignment(pos)

\* Parser::parseLogicalOr .. Parser::parseFactor: the operand of the level,
\* then the while loop over the level's operators
LegacyLevel(level, pos) ==
    IF level > Len(LegacyBinaryOperators) THEN parseUnary(pos)
    ELSE Then(LegacyLevel(level + 1, pos), LAMBDA left :
         LegacyLoop(level, left.node, left.pos))

LegacyLoop(level, expr, pos) ==
    IF \E t \in LegacyBinaryOperators[level] : check(t, pos) THEN
        Then(LegacyLevel(level + 1, ParserAdvance(pos)), LAMBDA right :
        LegacyLoop(level,
                   BinaryExpression(expr, tokens[pos + 1].value, right.node),
                   right.pos))
    ELSE Returned(pos, expr)

\* Parser::parseUnary
parseUnary(pos) ==
    IF check("NOT", pos) \/ check("MINUS", pos) THEN
        Then(parseUnary(ParserAdvance(pos)), LAMBDA right :
        Returned(right.pos, UnaryExpression(tokens[pos + 1].value, right.node)))
    ELSE parseCall(pos)

\* if (!check(closing)) do { parseExpression() } while (match(COMMA))
ExpressionList(pos, list) ==
    Then(parseExpression(pos), LAMBDA element :
    IF check("COMMA", element.pos)
    THEN ExpressionList(ParserAdvance(element.pos), Append(list, element.node))
    ELSE Returned(element.pos, Append(list, element.node)))

\* the while (true) loop of Parser::parseCall
ParseCallLoop(expr, pos) ==
    IF check("LEFT_PAREN", pos) THEN
        Then(IF check("RIGHT_PAREN", ParserAdvance(pos))
             THEN Returned(ParserAdvance(pos), <<>>)
             ELSE ExpressionList(ParserAdvance(pos), <<>>), LAMBDA arguments :
        Then(LegacyConsume("RIGHT_PAREN", "Expected ')' after arguments",
                           arguments.pos), LAMBDA close :
        ParseCallLoop(CallExpression(expr, arguments.node), close.pos)))
    ELSE IF check("DOT", pos) THEN
        Then(LegacyConsume("IDENTIFIER", "Expected property name after '.'",
                           ParserAdvance(pos)), LAMBDA property :
        ParseCallLoop(MemberExpression(expr, property.node.value), property.pos))
    ELSE Returned(pos, expr)

\* Parser::parseCall
parseCall(pos) ==
    Then(parsePrimary(pos), LAMBDA expr : ParseCallLoop(expr.node, expr.pos))

\* Parser::parsePrimary
parsePrimary(pos) ==
    IF check("TRUE_VALUE", pos) THEN
        Returned(ParserAdvance(pos), LiteralExpression("true", "BOOLEAN"))
    ELSE IF check("FALSE_VALUE", pos) THEN
        Returned(ParserAdvance(pos), LiteralExpression("false", "BOOLEAN"))
    ELSE IF check("INTEGER", pos) THEN
        Returned(ParserAdvance(pos),
                 LiteralExpression(tokens[pos + 1].value, "INTEGER"))
    ELSE IF check("STRING", pos) THEN
        IF check("PERCENT", ParserAdvance(pos)) THEN
            Then(LegacyConsume("LEFT_BRACKET", "Expected '[' after '%'",
                               ParserAdvance(ParserAdvance(pos))), LAMBDA open :
            Then(IF check("RIGHT_BRACKET", open.pos) THEN Returned(open.pos, <<>>)
                 ELSE ExpressionList(open.pos, <<>>), LAMBDA args :
            Then(LegacyConsume("RIGHT_BRACKET", "Expected ']' after format arguments",
                               args.pos), LAMBDA close :
            Returned(close.pos,
                     FormatStringExpression(tokens[pos + 1].value, args.node)))))
        ELSE Returned(ParserAdvance(pos),
                      LiteralExpression(tokens[pos + 1].value, "STRING"))
    ELSE IF check("IDENTIFIER", pos) THEN
        Returned(ParserAdvance(pos), IdentifierExpression(tokens[pos + 1].value))
    ELSE IF check("LEFT_PAREN", pos) THEN
        Then(parseExpression(ParserAdvance(pos)), LAMBDA expr :
        Then(LegacyConsume("RIGHT_PAREN", "Expected ')' after expression", expr.pos),
             LAMBDA close :
        Returned(close.pos, expr.node)))
    ELSE IF check("LEFT_BRACKET", pos) THEN
        Then(IF check("RIGHT_BRACKET", ParserAdvance(pos))
             THEN Returned(ParserAdvance(pos), <<>>)
             ELSE ExpressionList(ParserAdvance(pos), <<>>), LAMBDA elements :
        Then(LegacyConsume("RIGHT_BRACKET", "Expected ']' after array elements",
                           elements.pos), LAMBDA close :
        Returned(close.pos, ArrayExpression(elements.node))))
    ELSE RuntimeError("Unexpected token", pos)

\* The operands of the expressions, in the order in which they are written.
Operands == <<"a", "b", "c", "d", "e">>

\* The tokens of the binary operators + - * / %.
ArithmeticTokens ==
    {Token("PLUS", <<"+">>, 1, 1), Token("MINUS", <<"-">>, 1, 1),
     Token("MULTIPLY", <<"*">>, 1, 1), Token("DIVIDE", <<"/">>, 1, 1),
     Token("MODULO", <<"%">>, 1, 1)}

\* The token vector of operand, operator, operand, ..., EOF_TOKEN.
ExpressionTokens(operators) ==
    [k \in 1..(2 * Len(operators) + 2) |->
        IF k = 2 * Len(operators) + 2 THEN Token("EOF_TOKEN", <<>>, 1, 1)
        ELSE IF k % 2 = 1 THEN Token("IDENTIFIER", <<Operands[(k + 1) \div 2]>>, 1, 1)
        ELSE operators[k \div 2]]

ArithmeticExpressions ==
    {ExpressionTokens(operators) :
        operators \in UNION {[1..n -> ArithmeticTokens] : n \in 0..MaxOperators}}

InitExpression ==
    /\ ImportIdle
    /\ source = <<>>
    /\ lexer = NewLexer
    /\ lexPc = "idle"
    /\ tokens \in ArithmeticExpressions
    /\ ParseIdle
    /\ DriverIdle
    /\ cg = [stage |-> "none"]
    /\ lg = [stage |-> "none"]
    /\ xp = [stage |-> "tokens"]
    /\ li = [stage |-> "none"]
    /\ rs = [stage |-> "none"]

\* Thor::Parser::expression on the token vector
ParseExpression ==
    /\ xp.stage = "tokens"
    /\ xp' = [stage |-> "parsed", parser |-> "Thor", result |-> expression(0)]
    /\ UNCHANGED <<importVars, lexVars, parseVars, driver, genVars, li, rs>>

\* the legacy Parser::parseExpression on the token vector
LegacyParseExpression ==
    /\ xp.stage = "tokens"
    /\ xp' = [stage |-> "parsed", parser |-> "legacy",
              result |-> parseExpression(0)]
    /\ UNCHANGED <<importVars, lexVars, parseVars, driver, genVars, li, rs>>

NextExpression == ParseExpression \/ LegacyParseExpression

SpecExpression == InitExpression /\ [][NextExpression]_vars

\* The operators of an expression, in the order in which they are written.
OperatorsOf(toks) == [k \in 1..((Len(toks) - 2) \div 2) |-> toks[2 * k]]

Additive == {"PLUS", "MINUS"}

RECURSIVE Tree(_, _, _)

\* The tree of operands from..to of an expression in which multiplicative
\* operators bind tighter than additive ones and operators of one level
\* associate to the left: its root is the last additive operator between
\* the operands, or the last operator when none is additive.  A leaf is the
\* operand, an inner node is <<left, operator, right>>.
Tree(operators, from, to) ==
    IF from = to THEN <<Operands[from]>>
    ELSE LET additive == {k \in from..(to - 1) : operators[k].type \in Additive}
             root == IF additive # {}
                     THEN CHOOSE k \in additive : \A j \in additive : j <= k
                     ELSE to - 1
         IN  <<Tree(operators, from, root), operators[root].value,
               Tree(operators, root + 1, to)>>

RECURSIVE Shape(_)

\* The tree a parser returned, of either parser's node classes, as leaves
\* and <<left, operator, right>>.
Shape(node) ==
    CASE node.kind \in {"Identifier", "IdentifierExpression"} -> node.name
      [] node.kind = "BinaryOperation" ->
            <<Shape(node.left), node.op, Shape(node.right)>>
      [] node.kind = "BinaryExpression" ->
            <<Shape(node.left), node.op, Shape(node.right)>>
      [] OTHER -> <<"other", node.kind>>

C21_ThorReached ==
    /\ xp.stage = "parsed"
    /\ xp.parser = "Thor"
    /\ tokens = ExpressionTokens(<<Token("PLUS", <<"+">>, 1, 1),
                                   Token("MULTIPLY", <<"*">>, 1, 1)>>)
    /\ xp.result.node =
           BinaryOperation([kind |-> "Identifier", name |-> <<"a">>], <<"+">>,
               BinaryOperation([kind |-> "Identifier", name |-> <<"b">>], <<"*">>,
                               [kind |-> "Identifier", name |-> <<"c">>]))

(***************************************************************************)
(* Further claims about Thor::ImportProcessor::processImports.             *)
(***************************************************************************)

\* C27 (as claimed): the main file counts as processed from the start of
\* processImports: when a transitively imported module imports the main file,
\* the main file is not parsed and merged a second time, so each statement of
\* the main file appears exactly once in the merged program.
C27_MainFileMergedOnce ==
    Done =>
        \A pos \in 1..Len(OwnStatements(ip.mainFile)) :
            Cardinality({i \in Positions(ip.mainFile) :
                ip.mergedProgram[i] = OwnStatements(ip.mainFile)[pos]}) = 1

(***************************************************************************)
(* Further claims about the legacy CodeGenerator.                          *)
(***************************************************************************)

\* The top-level statement x == 1, a comparison of an integer variable with
\* an integer literal.
IntegerEquality ==
    LegacyExpressionStatement(BinaryExpression(Var("x"), "==", IntLiteral("1")))

\* C30 (as claimed): in the legacy generator a binary "==" whose operands
\* are both non-string is written as the parenthesized direct comparison
\* "(l == r)" and not as a call of thor_string_equals: the statement x == 1
\* is written as (x == 1), and no call of thor_string_equals has a
\* non-string first operand.
C30_NonStringEqualityIsDirect ==
    lg.stage = "generated" =>
        /\ \A k \in DOMAIN lg.input.statements :
              lg.input.statements[k] = IntegerEquality =>
                  \E i \in DOMAIN lg.returned :
                      HoldsAt(lg.returned, <<"(", "x", " == ", "1", ")">>, i)
        /\ \A i \in 1..(Len(lg.returned) - 1) :
              lg.returned[i] = "thor_string_equals(" =>
                  lg.returned[i + 1] \in LegacyStringOperands

\* The top-level statement y + p, which reads a variable named like the
\* Reference parameter p of the function f.
UseOfNameAfterFunction ==
    LegacyExpressionStatement(BinaryExpression(Var("y"), "+", Var("p")))

\* The statements of the main program at top level that are no function
\* declarations.
StatementsOutsideFunctions ==
    {k \in DOMAIN lg.input.statements :
        lg.input.statements[k].kind # "FunctionDeclaration"}

\* C28 (as claimed): the set of reference parameters is scoped to the
\* function being written: in a top-level statement that follows a function,
\* an identifier named like a Reference parameter of that function is written
\* as the plain name, so outside the text of the function bodies no
\* dereference is written.
C28_ReferenceParametersScopedToFunction ==
    lg.stage = "generated" =>
        /\ \A k \in StatementsOutsideFunctions :
              lg.input.statements[k] = UseOfNameAfterFunction =>
                  \E i \in DOMAIN lg.returned :
                      HoldsAt(lg.returned, <<"(", "y", " + ", "p", ")">>, i)
        /\ \A i \in DOMAIN lg.returned :
              (\A k \in Bodies : i < lg.object.emitted[k].at
                                    \/ i > lg.object.emitted[k].end)
              => \A v \in IdentifierNames :
                    lg.returned[i] \notin {"(*" \o v \o ")", "(*" \o v \o " = "}

(***************************************************************************)
(* A further claim about the compiler driver.                              *)
(***************************************************************************)

\* The stage the driver is in after each stage has returned, in order.
StageOrder ==
    <<"start", "read", "tokenized", "parsed", "imported", "generated", "written">>

\* The driver in state d has left through the catch clause of main.
Thrown(d) ==
    /\ d.stage = "exited"
    /\ d.error.message \in
           {"Could not open file", "Module not found", "Could not create file"}

\* C23: the stages of the driver run in the order read, tokenize, parse,
\* process imports, generate, write; when a stage throws (the input cannot
\* be read, a module is not found, the C file cannot be created) the driver
\* exits with status 1, the C file is not written and no C compiler is
\* invoked.
C23_StagesInOrderFailureStops ==
    [][/\ \/ \E k \in 1..(Len(StageOrder) - 1) :
                /\ driver.stage = StageOrder[k]
                /\ driver'.stage \in {StageOrder[k + 1], "exited", "parsing"}
          \/ driver.stage = "written" /\ driver'.stage = "exited"
       /\ driver'.stage = "parsing" => driver.stage = "tokenized"
       /\ (driver'.stage = "exited" /\ driver.stage # "written") => Thrown(driver')
       /\ ip'.status = "failed" => Thrown(driver')
       /\ Thrown(driver') =>
             /\ driver'.exitCode = 1
             /\ ~driver'.cFileWritten
             /\ ~driver'.compilerInvoked]_vars

\* Reached: the source import "a"; was read, tokenized and parsed, the module
\* was not found and the driver has exited with status 1 without a C file.
C23_Witness ==
    /\ source \in ImportSources
    /\ tokens # <<>>
    /\ Len(program) >= 1
    /\ ip.status = "failed"
    /\ driver.stage = "exited"
    /\ driver.error.message = "Module not found"
    /\ driver.exitCode = 1
    /\ ~driver.cFileWritten

\* Reached: every stage has returned and the C file is written.
C23_AllStagesReached ==
    /\ driver.stage = "exited"
    /\ driver.exitCode = 0
    /\ driver.cFileWritten

(***************************************************************************)
(* The legacy ImportProcessor.  A path is a record of its directory, the   *)
(* stem of its file name and its extension; the file system maps each      *)
(* existing file to what reading and parsing it gives.  The object is a    *)
(* record: moduleCache maps a module name to the Program cached for it,    *)
(* allocated counts the Program objects made so far (a Program carries the *)
(* number it was made with, its identity), probed is the set of the paths  *)
(* the last call asked the file system about.                              *)
(***************************************************************************)
MaxImports == 1

MaxLoads == 2

\* ImportProcessor::ImportProcessor
LegacySearchPaths == <<".", "./example">>

\* std::filesystem::path(dir) / (stem + ext)
LegacyPath(dir, stem, ext) == [dir |-> dir, stem |-> stem, ext |-> ext]

\* std::filesystem::path(searchPath) / module
ModuleDirectory(searchPath, module) == searchPath \o "/" \o module

\* The module names of the model; no file exists for gone.
LoadableModules == {"m", "n", "std.io"}

ImportNames == LoadableModules \cup {"gone"}

\* What a file gives: it cannot be opened, the parser throws on its text, or
\* it parses to a program with the given imports.
Unreadable == [kind |-> "unreadable"]

Malformed == [kind |-> "malformed"]

SourceImporting(imports) == [kind |-> "source", imports |-> imports]

FileContents ==
    {Unreadable, Malformed}
        \cup {SourceImporting(imports) :
                 imports \in UNION {[1..n -> ImportNames] : n \in 0..MaxImports}}

\* A Program object: made is its identity.
LoadedProgram(made, package, imports, statements) ==
    [kind |-> "Program", made |-> made, package |-> package, imports |-> imports,
     statements |-> statements]

StringType == [kind |-> "STRING_TYPE"]

VoidType == [kind |-> "VOID_TYPE"]

\* loadModule, the built-in branch: the virtual std.io module
StdIoProgram(made) ==
    LoadedProgram(made, "std", <<>>,
        <<LegacyFunctionDeclaration("println", <<Parameter("message", StringType)>>,
                                    VoidType, Nullptr),
          LegacyFunctionDeclaration("input", <<Parameter("prompt", StringType)>>,
                                    StringType, Nullptr)>>)

\* ImportProcessor::ImportProcessor on a file system in which directory
\* iteration yields first[dir] first.
NewLegacyImportProcessor(fileSystem, first) ==
    [stage |-> "constructed", files |-> fileSystem, first |-> first,
     searchPaths |-> LegacySearchPaths, moduleCache |-> <<>>, allocated |-> 0,
     probed |-> {}, thrown |-> FALSE, result |-> Nullptr, log |-> <<>>]

\* The entries of a directory that the loop of resolveModulePath accepts.
ThorEntries(s, dir) == {f \in DOMAIN s.files : f.dir = dir /\ f.ext = ".thor"}

RECURSIVE ResolveFrom(_, _, _, _)

\* resolveModulePath: the loop over the search paths from the k-th one on,
\* with the paths probed so far
ResolveFrom(s, module, k, probed) ==
    IF k > Len(s.searchPaths)
    THEN [found |-> FALSE, path |-> LegacyPath("none", "none", "none"),
          probed |-> probed]
    ELSE IF LegacyPath(s.searchPaths[k], module, ".thor") \in DOMAIN s.files
    THEN [found |-> TRUE, path |-> LegacyPath(s.searchPaths[k], module, ".thor"),
          probed |-> probed \cup {LegacyPath(s.searchPaths[k], module, ".thor")}]
    ELSE IF LegacyPath(ModuleDirectory(s.searchPaths[k], module), module, ".thor")
                \in DOMAIN s.files
    THEN [found |-> TRUE,
          path |-> LegacyPath(ModuleDirectory(s.searchPaths[k], module), module, ".thor"),
          probed |-> probed \cup
              {LegacyPath(s.searchPaths[k], module, ".thor"),
               LegacyPath(ModuleDirectory(s.searchPaths[k], module), module, ".thor")}]
    ELSE IF ThorEntries(s, ModuleDirectory(s.searchPaths[k], module)) # {}
    THEN [found |-> TRUE, path |-> s.first[ModuleDirectory(s.searchPaths[k], module)],
          probed |-> probed \cup
              {LegacyPath(s.searchPaths[k], module, ".thor"),
               LegacyPath(ModuleDirectory(s.searchPaths[k], module), module, ".thor"),
               LegacyPath(s.searchPaths[k], module, "")}]
    ELSE ResolveFrom(s, module, k + 1,
             probed \cup
                 {LegacyPath(s.searchPaths[k], module, ".thor"),
                  LegacyPath(ModuleDirectory(s.searchPaths[k], module), module, ".thor"),
                  LegacyPath(s.searchPaths[k], module, "")})

\* ImportProcessor::resolveModulePath; found is false when it throws
resolveModulePath(s, module) == ResolveFrom(s, module, 1, {})

\* loadModule leaves through an exception.
LoadThrows(s) == [s EXCEPT !.thrown = TRUE, !.result = Nullptr]

\* moduleCache[module] = moduleProgram, for a Program just made
CacheModule(s, module, moduleProgram) ==
    [s EXCEPT !.allocated = @ + 1,
              !.moduleCache = [name \in DOMAIN @ \cup {module} |->
                                  IF name = module THEN moduleProgram ELSE @[name]],
              !.result = moduleProgram]

RECURSIVE loadModule(_, _), LegacyImportLoop(_, _, _)

\* ImportProcessor::processImports (legacy): the loop over program->imports,
\* left at the first loadModule that throws
LegacyImportLoop(s, imports, i) ==
    IF i > Len(imports) \/ s.thrown THEN s
    ELSE AndThen(loadModule(s, imports[i]),
                 LAMBDA r : LegacyImportLoop(r, imports, i + 1))

\* loadModule, the try block: resolve, open, lex and parse the file, cache
\* the Program, then load its imports; every exception is thrown on
LoadFromFiles(s, module) ==
    AndThen(resolveModulePath(s, module), LAMBDA found :
    AndThen([s EXCEPT !.probed = @ \cup found.probed], LAMBDA probed :
    IF ~found.found THEN LoadThrows(probed)
    ELSE IF s.files[found.path].kind # "source" THEN LoadThrows(probed)
    ELSE AndThen(CacheModule(probed, module,
                     LoadedProgram(probed.allocated + 1, "none",
                                   s.files[found.path].imports, <<>>)),
                 LAMBDA cached :
         AndThen(LegacyImportLoop(cached, cached.result.imports, 1),
                 LAMBDA loaded :
             IF loaded.thrown THEN LoadThrows(loaded)
             ELSE [loaded EXCEPT !.result = cached.result]))))

\* A loadModule that looks for every module in the file system.
LoadWithoutBuiltin(s, module) ==
    IF module \in DOMAIN s.moduleCache
    THEN [s EXCEPT !.result = s.moduleCache[module]]
    ELSE LoadFromFiles(s, module)

\* ImportProcessor::loadModule
loadModule(s, module) ==
    IF module \in DOMAIN s.moduleCache
    THEN [s EXCEPT !.result = s.moduleCache[module]]
    ELSE IF module = "std.io"
    THEN CacheModule(s, module, StdIoProgram(s.allocated + 1))
    ELSE LoadFromFiles(s, module)

\* The file systems of the loads: m.thor in the working directory, n.thor in
\* ./example and a file std.io.thor, each present or not.
LoadFileSystems ==
    {[f \in present |-> IF f.stem = "std.io" THEN SourceImporting(<<>>) ELSE c[f]] :
        present \in SUBSET {LegacyPath(".", "m", ".thor"),
                            LegacyPath("./example", "n", ".thor"),
                            LegacyPath(".", "std.io", ".thor")},
        c \in [{LegacyPath(".", "m", ".thor"),
                LegacyPath("./example", "n", ".thor")} -> FileContents]}

InitLoad ==
    /\ ImportIdle
    /\ LexIdle
    /\ ParseIdle
    /\ DriverIdle
    /\ cg = [stage |-> "none"]
    /\ lg = [stage |-> "none"]
    /\ xp = [stage |-> "none"]
    /\ rs = [stage |-> "none"]
    /\ \E fileSystem \in LoadFileSystems :
          li = NewLegacyImportProcessor(fileSystem, <<>>)

\* importProcessor.processImports(program) for a program whose one import
\* is module: one call of loadModule from outside
LegacyLoad(module) ==
    /\ li.stage = "constructed"
    /\ Len(li.log) < MaxLoads
    /\ li' = AndThen(LegacyImportLoop([li EXCEPT !.probed = {}, !.thrown = FALSE,
                                                  !.result = Nullptr],
                                       <<module>>, 1),
                      LAMBDA after :
                          [after EXCEPT !.log = Append(@,
                              [module |-> module,
                               cacheBefore |-> li.moduleCache,
                               cacheAfter |-> after.moduleCache,
                               thrown |-> after.thrown,
                               probed |-> after.probed,
                               result |-> after.result])])
    /\ UNCHANGED <<importVars, lexVars, parseVars, driver, genVars, xp, rs>>

NextLoad == \E module \in LoadableModules : LegacyLoad(module)

SpecLoad == InitLoad /\ [][NextLoad]_vars

\* C22: loadModule("std.io") returns for every file system, the empty one
\* included, without asking the file system about any path; what it returns
\* is a module of package std whose statements are the declarations of
\* println and input without bodies, and a second load of std.io returns the
\* module the first one cached.
C22_StdIoIsVirtual ==
    \A k \in DOMAIN li.log :
        li.log[k].module = "std.io" =>
            /\ ~li.log[k].thrown
            /\ li.log[k].probed = {}
            /\ li.log[k].result.package = "std"
            /\ li.log[k].result.statements = StdIoProgram(0).statements
            /\ \A i \in DOMAIN li.log[k].result.statements :
                  li.log[k].result.statements[i].body = Nullptr
            /\ li.log[k].cacheAfter["std.io"] = li.log[k].result
            /\ \A j \in 1..(k - 1) :
                  li.log[j].module = "std.io" => li.log[k].result = li.log[j].result

\* Reached: std.io was loaded twice on the empty file system.
C22_Witness ==
    /\ li.stage = "constructed"
    /\ DOMAIN li.files = {}
    /\ Len(li.log) = 2
    /\ li.log[1].module = "std.io" /\ li.log[2].module = "std.io"
    /\ li.log[2].result = StdIoProgram(1)

\* C29 (as claimed): a loadModule that throws leaves the module cache as it
\* was, and a later load of the same module throws again.
C29_FailedLoadLeavesCacheUnchanged ==
    \A k \in DOMAIN li.log :
        li.log[k].thrown =>
            /\ li.log[k].cacheAfter = li.log[k].cacheBefore
            /\ \A j \in (k + 1)..Len(li.log) :
                  li.log[j].module = li.log[k].module => li.log[j].thrown

(***************************************************************************)
(* Module resolution: Thor::ImportProcessor::findModule and the legacy     *)
(* ImportProcessor::resolveModulePath, each applied to the module name m   *)
(* imported by a file of the directory src, on one file system.  Each file *)
(* that may exist is given as findModule sees it (canonical directory and  *)
(* file name) and as resolveModulePath sees it (directory as spelled, stem *)
(* and extension).                                                         *)
(***************************************************************************)
ResolvedModule == "m"

\* The directory of the importing file.
ImportingDir == "src"

FileSlot(dir, spelled, stem, ext) ==
    [thor |-> Path(dir, stem \o ext), legacy |-> LegacyPath(spelled, stem, ext)]

\* The files that may exist: m and m.thor beside the importing file, m.thor
\* in the working directory, m and m.thor in lib, m.thor in example, three
\* files in the directory m of the working directory and one in the
\* directory m of example.
FileSlots ==
    {FileSlot("src", "./src", "m", ""), FileSlot("src", "./src", "m", ".thor"),
     FileSlot("cwd", ".", "m", ".thor"),
     FileSlot("lib", "./lib", "m", ""), FileSlot("lib", "./lib", "m", ".thor"),
     FileSlot("example", "./example", "m", ".thor"),
     FileSlot("cwd/m", "./m", "m", ".thor"),
     FileSlot("cwd/m", "./m", "y", ".thor"),
     FileSlot("cwd/m", "./m", "z", ".thor"),
     FileSlot("example/m", "./example/m", "z", ".thor")}

\* The orders in which directory iteration may yield the entries of the
\* directories of a file system: the entry yielded first, for each directory.
FirstEntries(fileSystem) ==
    {first \in [{f.dir : f \in DOMAIN fileSystem} -> DOMAIN fileSystem] :
        \A dir \in DOMAIN first : first[dir].dir = dir}

Unasked == [asked |-> FALSE]

Answer(found, path) == [asked |-> TRUE, found |-> found, path |-> path]

InitResolve ==
    /\ ip = NewImportProcessor
    /\ fresh = NewImportProcessor
    /\ priorCall = "none"
    /\ LexIdle
    /\ ParseIdle
    /\ DriverIdle
    /\ cg = [stage |-> "none"]
    /\ lg = [stage |-> "none"]
    /\ xp = [stage |-> "none"]
    /\ \E present \in SUBSET FileSlots :
          /\ files = [f \in {slot.thor : slot \in present} |-> <<>>]
          /\ \E first \in FirstEntries([f \in {slot.legacy : slot \in present} |->
                                           SourceImporting(<<>>)]) :
                li = NewLegacyImportProcessor(
                         [f \in {slot.legacy : slot \in present} |->
                             SourceImporting(<<>>)], first)
    /\ rs = [stage |-> "files", thor |-> Unasked, legacy |-> Unasked]

\* findModule(moduleName, currentDir) on a newly constructed
\* Thor::ImportProcessor
FindModule ==
    /\ rs.stage = "files"
    /\ ~rs.thor.asked
    /\ rs' = [rs EXCEPT !.thor =
                 Answer(findModule(ip.searchPaths, ResolvedModule, ImportingDir)
                            # NotFound,
                        findModule(ip.searchPaths, ResolvedModule, ImportingDir))]
    /\ UNCHANGED <<importVars, lexVars, parseVars, driver, genVars, xp, li>>

\* resolveModulePath(module) on a newly constructed legacy ImportProcessor
ResolveModulePath ==
    /\ rs.stage = "files"
    /\ ~rs.legacy.asked
    /\ rs' = [rs EXCEPT !.legacy =
                 Answer(resolveModulePath(li, ResolvedModule).found,
                        resolveModulePath(li, ResolvedModule).path)]
    /\ UNCHANGED <<importVars, lexVars, parseVars, driver, genVars, xp, li>>

NextResolve == FindModule \/ ResolveModulePath

SpecResolve == InitResolve /\ [][NextResolve]_vars

\* The answers the claimed probe order allows: steps is the sequence of the
\* sets of candidates of each step, existing the set of the files that exist.
\* The answer is an existing candidate of the first step that has one.
ClaimedAnswers(steps, existing) ==
    IF \A k \in DOMAIN steps : steps[k] \cap existing = {}
    THEN {}
    ELSE steps[CHOOSE k \in DOMAIN steps :
                   /\ steps[k] \cap existing # {}
                   /\ \A j \in 1..(k - 1) : steps[j] \cap existing = {}]
            \cap existing

\* The steps of the claim for findModule: (a) the importing directory, (b)
\* the search paths "." and "./lib" in order, (c) the files of a directory
\* named after the module.
ClaimedThorSteps ==
    << {Path(ImportingDir, ResolvedModule), Path(ImportingDir, WithThor(ResolvedModule))},
       {Path("cwd", ResolvedModule), Path("cwd", WithThor(ResolvedModule))},
       {Path("lib", ResolvedModule), Path("lib", WithThor(ResolvedModule))},
       {f \in DOMAIN files :
           f.dir \in {dir \o "/" \o ResolvedModule : dir \in {ImportingDir, "cwd", "lib"}}} >>

\* The steps of the claim for resolveModulePath: (a) the importing directory,
\* (b) the search paths "." and "./example" in order, (c) the .thor files of
\* a directory named after the module.
ClaimedLegacySteps ==
    << {LegacyPath("./" \o ImportingDir, ResolvedModule, ""),
        LegacyPath("./" \o ImportingDir, ResolvedModule, ".thor")},
       {LegacyPath(".", ResolvedModule, ""), LegacyPath(".", ResolvedModule, ".thor")},
       {LegacyPath("./example", ResolvedModule, ""),
        LegacyPath("./example", ResolvedModule, ".thor")},
       {f \in DOMAIN li.files :
           /\ f.ext = ".thor"
           /\ f.dir \in {ModuleDirectory(dir, ResolvedModule) :
                            dir \in {"./" \o ImportingDir, ".", "./example"}}} >>

\* findModule answers as the claimed probe order requires.
ThorFollowsClaimedOrder ==
    rs.thor.asked =>
        IF ClaimedAnswers(ClaimedThorSteps, DOMAIN files) = {}
        THEN ~rs.thor.found
        ELSE rs.thor.found
                 /\ rs.thor.path \in ClaimedAnswers(ClaimedThorSteps, DOMAIN files)

\* resolveModulePath answers as the claimed probe order requires.
LegacyFollowsClaimedOrder ==
    rs.legacy.asked =>
        IF ClaimedAnswers(ClaimedLegacySteps, DOMAIN li.files) = {}
        THEN ~rs.legacy.found
        ELSE rs.legacy.found
                 /\ rs.legacy.path \in ClaimedAnswers(ClaimedLegacySteps, DOMAIN li.files)

\* C26 (as claimed): module resolution returns the first existing candidate
\* in the order (a) the importing file's directory, with and without .thor,
\* (b) each search path in configuration order, probed the same way, (c) a
\* directory named after the module holding a .thor file; an earlier step
\* wins over a later one and resolution fails only when every probe fails.
C26_FirstExistingCandidateInOrder ==
    rs.stage = "files" => ThorFollowsClaimedOrder /\ LegacyFollowsClaimedOrder

(***************************************************************************)
(* Thor::ImportProcessor on files of two directories, followed by          *)
(* Thor::CodeGenerator on the merged program.  main.thor and a.thor are in *)
(* the working directory, b.thor is in lib; a.thor is imported under the   *)
(* names a and a.thor, from the working directory and from lib; an import  *)
(* statement may stand inside a block.                                     *)
(***************************************************************************)
MaxPathStmts == 2

MaxLibStmts == 1

MainPath == Path("cwd", "main.thor")

LibPath == Path("lib", "b.thor")

\* A block statement holding one import statement; path and pos identify
\* the AST node.
NestedImport(path, pos, moduleName) ==
    [kind |-> "Block", statements |-> <<ImportStmt(moduleName)>>,
     path |-> path, pos |-> pos]

MainStmtKinds == {"stmt", "import:a", "import:a.thor", "import:b", "nested:a"}

LibStmtKinds == {"stmt", "import:a", "import:a.thor", "import:x"}

\* The statement of the given kind at position pos of the file at path.
StatementOf(path, pos, kind) ==
    CASE kind = "stmt" -> OtherStmt(path, pos)
      [] kind = "import:a" -> ImportStmt("a")
      [] kind = "import:a.thor" -> ImportStmt("a.thor")
      [] kind = "import:b" -> ImportStmt("b")
      [] kind = "import:x" -> ImportStmt("x")
      [] kind = "nested:a" -> NestedImport(path, pos, "a")

InitPaths ==
    /\ \E km \in UNION {[1..n -> MainStmtKinds] : n \in 0..MaxPathStmts},
          ka \in UNION {[1..n -> {"stmt"}] : n \in 0..1},
          kb \in UNION {[1..n -> LibStmtKinds] : n \in 0..MaxLibStmts} :
          files = (MainPath :> [i \in 1..Len(km) |-> StatementOf(MainPath, i, km[i])])
               @@ (SourcePath("a") :>
                      [i \in 1..Len(ka) |-> StatementOf(SourcePath("a"), i, ka[i])])
               @@ (LibPath :> [i \in 1..Len(kb) |-> StatementOf(LibPath, i, kb[i])])
    /\ ip = NewImportProcessor
    /\ fresh = NewImportProcessor
    /\ priorCall = "none"
    /\ LexIdle
    /\ ParseIdle
    /\ DriverIdle
    /\ GenIdle

\* The statement of the code generator's AST that a statement of the merged
\* program is: a statement that is no block is taken to be a call statement.
AstOf(stmt) == IF stmt.kind = "stmt" THEN ExpressionStatement(UserCall) ELSE stmt

\* generator.generate(processedProgram.get()) on a newly constructed
\* Thor::CodeGenerator
GenerateMerged ==
    /\ ip.status = "done"
    /\ cg.stage = "none"
    /\ \E addBracesDefault \in BOOLEAN :
          cg' = [stage |-> "generated",
                 input |-> [i \in DOMAIN ip.mergedProgram |-> AstOf(ip.mergedProgram[i])],
                 object |-> generate(NewCodeGenerator(addBracesDefault),
                                     [i \in DOMAIN ip.mergedProgram |->
                                         AstOf(ip.mergedProgram[i])]),
                 returned |-> generate(NewCodeGenerator(addBracesDefault),
                                       [i \in DOMAIN ip.mergedProgram |->
                                           AstOf(ip.mergedProgram[i])]).output]
    /\ UNCHANGED <<importVars, lexVars, parseVars, driver, lg, frontVars>>

NextPaths ==
    \/ ProcessImports(MainPath)
    \/ ImportStep
    \/ GenerateMerged

SpecPaths == InitPaths /\ [][NextPaths]_vars

\* The files whose statements the call has walked: the main file and the
\* files of the processed set.
WalkedFiles == {MainPath} \cup {Denoted(path) : path \in ip.processedFiles}

\* The import statements at top level of the walked files.
ExecutedImports ==
    {at \in WalkedFiles \X (1..MaxPathStmts) :
        /\ at[2] <= Len(files[at[1]])
        /\ files[at[1]][at[2]].kind = "import"}

\* The positions of the merged program that hold the statement at position
\* pos of the file at path.
MergedAt(path, pos) ==
    {i \in DOMAIN ip.mergedProgram :
        ip.mergedProgram[i].path = path /\ ip.mergedProgram[i].pos = pos}

\* C24: duplicates are detected by the canonical path of the file, not by
\* the text of the module name: however a file is named and from whichever
\* directory it is reached, it is merged once (each of its statements is in
\* the merged program exactly once), every further import statement that
\* resolves to it is reported as a duplicate, and the processed set holds
\* canonical paths.
C24_DuplicatesByCanonicalPath ==
    Done =>
        /\ ip.processedFiles \subseteq DOMAIN files
        /\ \A path \in DOMAIN files :
              \A pos \in 1..Len(files[path]) :
                  files[path][pos].kind # "import" =>
                      Cardinality(MergedAt(path, pos))
                          = IF path \in WalkedFiles THEN 1 ELSE 0
        /\ Len(ip.warnings)
               = Cardinality(ExecutedImports) - Cardinality(ip.processedFiles)
        /\ \A i \in DOMAIN ip.warnings :
              ip.warnings[i].importedFrom \in ip.processedFiles

\* Reached: the main file imports a.thor under the names a and a.thor; the
\* file was merged once and the second import reported.
C24_Witness ==
    /\ Done
    /\ files[MainPath] = <<ImportStmt("a"), ImportStmt("a.thor")>>
    /\ Len(files[SourcePath("a")]) = 1
    /\ Cardinality(MergedAt(SourcePath("a"), 1)) = 1
    /\ ip.warnings = <<[moduleName |-> "a.thor", importedFrom |-> SourcePath("a"),
                        foundIn |-> MainPath]>>

\* Reached: a.thor is imported from lib/b.thor and then from the main file
\* in the working directory; it was merged once.
C24_ReachedFromTwoDirectories ==
    /\ Done
    /\ files[MainPath] = <<ImportStmt("b"), ImportStmt("a")>>
    /\ files[LibPath] = <<ImportStmt("a")>>
    /\ Len(files[SourcePath("a")]) = 1
    /\ Cardinality(MergedAt(SourcePath("a"), 1)) = 1
    /\ ip.warnings = <<[moduleName |-> "a", importedFrom |-> SourcePath("a"),
                        foundIn |-> MainPath]>>

RECURSIVE HoldsImport(_)

\* An ImportStatement node is the statement or is inside it.
HoldsImport(stmt) ==
    \/ stmt.kind = "import"
    \/ /\ stmt.kind = "Block"
       /\ \E i \in DOMAIN stmt.statements : HoldsImport(stmt.statements[i])

\* C25 (as claimed): after processImports no ImportStatement node remains
\* in the merged program, at top level or inside a block, and the text
\* Thor::CodeGenerator returns for the merged program has no "// Import: "
\* line.
C25_NoImportStatementRemains ==
    /\ Done => \A i \in DOMAIN ip.mergedProgram : ~HoldsImport(ip.mergedProgram[i])
    /\ cg.stage = "generated" =>
          \A i \in DOMAIN cg.returned : cg.returned[i] # "// Import: "

\* No import statement remains at top level of the merged program.
NoTopLevelImportRemains ==
    Done => \A i \in DOMAIN ip.mergedProgram : ip.mergedProgram[i].kind # "import"

====
